---- MODULE Spec2Model ----
(***************************************************************************)
(* Model of the vulpo table handle: one movable cursor over a row store,   *)
(* the selected ordering (physical order or a named tag), the soft-delete  *)
(* lifecycle, the aggregate scans and the search engines.                  *)
(*                                                                         *)
(* The Go layer is translated operation by operation.  The storage engine  *)
(* it calls through cgo (d4top, d4skip, d4go, d4seek, d4pack, ...) is not   *)
(* part of the Go sources; its operators (prefix D4) follow the engine's   *)
(* documented contract.                                                    *)
(***************************************************************************)
EXTENDS Integers, Sequences, FiniteSets, TLC

(* ------------------------------ bounds --------------------------------- *)
MaxRows == 2
FieldLen == 2
\* Calendar dates are drawn from the years 1..CycleYears (one full cycle of
\* the Gregorian leap-year rule) and from a few later years.
CycleYears == 400

(* ------------------------ engine result codes -------------------------- *)
r4success == 0
r4after == 1
r4eof == 2
r4entry == 3
r4locked == 4
r4unique == 5
r4noTag == 0 - 1
r4bof == 6
e4info == 0 - 910

(* ------------------------------ strings -------------------------------- *)
\* A string is a sequence of one-character strings.
Chars == {"A", "B"}
Space == " "
NoTag == << >>
TagNAME == <<"N", "A", "M", "E">>
TagRECID == <<"R", "E", "C", "I", "D">>
FieldNAME == <<"N", "A", "M", "E">>
FieldRECID == <<"R", "E", "C", "I", "D">>
AllTags == {TagNAME, TagRECID}
InvalidTag == <<"?">>

RECURSIVE Pad(_)
Pad(s) == IF Len(s) >= FieldLen THEN SubSeq(s, 1, FieldLen) ELSE Pad(Append(s, Space))

RECURSIVE TrimRight(_)
TrimRight(s) ==
    IF s = << >> THEN s
    ELSE IF s[Len(s)] = Space THEN TrimRight(SubSeq(s, 1, Len(s) - 1)) ELSE s

RECURSIVE TrimLeft(_)
TrimLeft(s) ==
    IF s = << >> THEN s
    ELSE IF s[1] = Space THEN TrimLeft(Tail(s)) ELSE s

TrimSpace(s) == TrimLeft(TrimRight(s))

\* Lexicographic comparison of two strings, Space < "A" < "B".
CharOrd(c) == IF c = Space THEN 0 ELSE IF c = "A" THEN 1 ELSE IF c = "B" THEN 2 ELSE 3

RECURSIVE StrLess(_, _)
StrLess(a, b) ==
    IF b = << >> THEN FALSE
    ELSE IF a = << >> THEN TRUE
    ELSE IF CharOrd(a[1]) < CharOrd(b[1]) THEN TRUE
    ELSE IF CharOrd(a[1]) > CharOrd(b[1]) THEN FALSE
    ELSE StrLess(Tail(a), Tail(b))

HasPrefix(s, p) == Len(s) >= Len(p) /\ SubSeq(s, 1, Len(p)) = p

(* ------------------------------ tables --------------------------------- *)
\* Stored text of the character column NAME, padded to the column width.
Texts == {<<"A">>, <<"A", "B">>}
Vals == {Pad(t) : t \in Texts}

Row(i, v) == [id |-> i, del |-> FALSE, val |-> v]

\* The tables a file can hold: 0..MaxRows rows, any stored text per row.
Tables == UNION {[1..n -> Vals] : n \in 0..MaxRows}
TagSets == {{}, {TagNAME, TagRECID}}

\* Key order of the NAME tag: by stored text, ties by record number.
KeyLess(rows, a, b) ==
    \/ StrLess(rows[a].val, rows[b].val)
    \/ (rows[a].val = rows[b].val /\ a < b)

\* Number of rows that sort before record a under the tag.
Rank(rows, a) == Cardinality({b \in 1..Len(rows) : KeyLess(rows, b, a)})

\* The index of the NAME tag, when the table has tags: the record numbers in
\* key order.  The RECID tag orders the rows as the file does.
D4Reindex(rows, tg) ==
    IF TagNAME \notin tg THEN << >>
    ELSE [i \in 1..Len(rows) |-> CHOOSE a \in 1..Len(rows) : Rank(rows, a) = i - 1]

NoData == [rows |-> << >>, recNum |-> 0 - 1, bofFlag |-> FALSE, eofFlag |-> FALSE,
           tagSelected |-> NoTag, tags |-> {}, index |-> << >>]

D4Open(t, tg) ==
    LET rows == [i \in 1..Len(t) |-> Row(i, t[i])]
    IN  [rows |-> rows, recNum |-> 0 - 1, bofFlag |-> FALSE, eofFlag |-> FALSE,
         tagSelected |-> NoTag, tags |-> tg, index |-> D4Reindex(rows, tg)]

D4RecCount(e) == Len(e.rows)

(* ------------------------------ orderings ------------------------------ *)
\* Key order of a tag: NAME orders by the stored text, RECID by the row id;
\* equal keys keep record-number order.
RecAt(e, i) == IF e.tagSelected = TagNAME THEN e.index[i] ELSE i

\* The record numbers in the order of the selected ordering.
Order(e) == [i \in 1..D4RecCount(e) |-> RecAt(e, i)]

\* Position of the cursor within the selected ordering (count+1 at EOF).
OrdIndex(e) ==
    IF e.eofFlag \/ e.recNum > D4RecCount(e) THEN D4RecCount(e) + 1
    ELSE IF e.tagSelected = TagNAME
    THEN CHOOSE i \in 1..D4RecCount(e) : e.index[i] = e.recNum
    ELSE e.recNum

(* --------------------------- engine: cursor ---------------------------- *)
D4GoEof(e) ==
    [st |-> [e EXCEPT !.recNum = D4RecCount(e) + 1, !.eofFlag = TRUE], rc |-> r4eof]

D4Go(e, n) ==
    IF n >= 1 /\ n <= D4RecCount(e)
    THEN [st |-> [e EXCEPT !.recNum = n, !.bofFlag = FALSE, !.eofFlag = FALSE],
          rc |-> r4success]
    ELSE [st |-> e, rc |-> r4entry]

D4Top(e) ==
    IF D4RecCount(e) > 0
    THEN D4Go(e, RecAt(e, 1))
    ELSE D4GoEof([e EXCEPT !.bofFlag = TRUE])

D4Bottom(e) ==
    IF D4RecCount(e) > 0
    THEN D4Go(e, RecAt(e, D4RecCount(e)))
    ELSE D4GoEof([e EXCEPT !.bofFlag = TRUE])

D4Skip(e, n) ==
    IF e.recNum < 1
    THEN [st |-> e, rc |-> e4info]
    ELSE IF D4RecCount(e) = 0
    THEN [st |-> [e EXCEPT !.recNum = 1, !.bofFlag = TRUE, !.eofFlag = TRUE],
          rc |-> IF n < 0 THEN r4bof ELSE r4eof]
    ELSE LET target == OrdIndex(e) + n IN
         IF target < 1
         THEN [st |-> [e EXCEPT !.recNum = RecAt(e, 1), !.bofFlag = TRUE,
                                !.eofFlag = FALSE],
               rc |-> r4bof]
         ELSE IF target > D4RecCount(e)
         THEN D4GoEof([e EXCEPT !.bofFlag = FALSE])
         ELSE D4Go(e, RecAt(e, target))

D4Eof(e) == e.eofFlag
D4Bof(e) == e.bofFlag
D4RecNo(e) == e.recNum

\* A lock failure of a positioning call: nothing moves, the call reports r4locked.
D4Locked(e) == [st |-> e, rc |-> r4locked]

(* ---------------------------- engine: tags ----------------------------- *)
D4TagSelected(e) == e.tagSelected
D4TagSelect(e, tag) == [e EXCEPT !.tagSelected = tag]

(* ---------------------------- engine: seek ----------------------------- *)
\* Seeking compares the search key with the leading Len(key) characters of
\* each stored key (partial match on character tags).
KeyPart(e, a, key) ==
    IF Len(key) <= Len(e.rows[a].val) THEN SubSeq(e.rows[a].val, 1, Len(key))
    ELSE e.rows[a].val

\* Index positions, in tag order, whose key is not less than the search key.
NotBefore(e, key) ==
    {i \in 1..D4RecCount(e) : ~StrLess(KeyPart(e, RecAt(e, i), key), key)}

Min(S) == CHOOSE x \in S : \A y \in S : x <= y

\* d4seek under the selected tag; fault is 0 or the code of an engine failure
\* (r4entry, r4locked, r4unique, a negative error code).
D4Seek(e, key, fault) ==
    IF e.tagSelected = NoTag THEN [st |-> e, rc |-> r4noTag]
    ELSE IF fault # 0 THEN [st |-> e, rc |-> fault]
    ELSE IF e.tagSelected # TagNAME THEN [st |-> e, rc |-> e4info]
    ELSE IF NotBefore(e, key) = {} THEN D4GoEof([e EXCEPT !.bofFlag = FALSE])
    ELSE LET a == RecAt(e, Min(NotBefore(e, key)))
         IN  [st |-> D4Go(e, a).st,
              rc |-> IF KeyPart(e, a, key) = key THEN r4success ELSE r4after]

\* Index positions, in tag order, whose numeric key (the row id) is >= k.
NotBeforeNum(e, k) == {i \in 1..D4RecCount(e) : e.rows[RecAt(e, i)].id >= k}

D4SeekDouble(e, k, fault) ==
    IF e.tagSelected = NoTag THEN [st |-> e, rc |-> r4noTag]
    ELSE IF fault # 0 THEN [st |-> e, rc |-> fault]
    ELSE IF e.tagSelected # TagRECID THEN [st |-> e, rc |-> e4info]
    ELSE IF NotBeforeNum(e, k) = {} THEN D4GoEof([e EXCEPT !.bofFlag = FALSE])
    ELSE LET a == RecAt(e, Min(NotBeforeNum(e, k)))
         IN  [st |-> D4Go(e, a).st,
              rc |-> IF e.rows[a].id = k THEN r4success ELSE r4after]

(* -------------------------- engine: deletion --------------------------- *)
\* The flag lives in the record buffer; with no row loaded (recNum outside
\* 1..count) the buffer is blank and belongs to no row.
OnRow(e) == e.recNum >= 1 /\ e.recNum <= D4RecCount(e)
D4Deleted(e) == IF OnRow(e) THEN e.rows[e.recNum].del ELSE FALSE
D4Delete(e) == IF OnRow(e) THEN [e EXCEPT !.rows[e.recNum].del = TRUE] ELSE e
D4Recall(e) == IF OnRow(e) THEN [e EXCEPT !.rows[e.recNum].del = FALSE] ELSE e

RECURSIVE Compact(_)
Compact(rs) ==
    IF rs = << >> THEN << >>
    ELSE IF rs[1].del THEN Compact(Tail(rs)) ELSE <<rs[1]>> \o Compact(Tail(rs))

\* d4pack removes the flagged rows; the position is undefined afterwards.
D4Pack(e) ==
    [e EXCEPT !.rows = Compact(e.rows), !.index = D4Reindex(Compact(e.rows), e.tags),
              !.recNum = 0 - 1, !.bofFlag = FALSE, !.eofFlag = FALSE]

(* ------------------------------- state --------------------------------- *)
VARIABLES
    opened,   \* v.data != nil
    data,     \* the engine's DATA4: rows, cursor, selected tag, tags
    ret,      \* what the last call returned
    obj,      \* the handle's own fields and the objects the caller got from it
    scans     \* the scans goroutines are running on the handle, call by call

vars == <<opened, data, ret, obj, scans>>

NoErr == "nil"
\* op: the call; err: its error; val: its count or seek outcome; list: the
\* record numbers it reported; calls: how often it invoked the callback;
\* arg: the invocation at which the caller's callback fails (0: never).
\* scanned: TotalScanned of a search result.  key: the search value of a seek
\* (the field type and the reader of a typed read).
\* tag: the tag argument of SelectTag, SeekWithTag and SeekDoubleWithTag.
RetCb(op, err, val, list, calls, arg) ==
    [op |-> op, err |-> err, val |-> val, list |-> list, calls |-> calls, arg |-> arg,
     scanned |-> 0, key |-> << >>, tag |-> << >>, filter |-> "none", frees |-> 0]
Ret(op, err, val, list, calls) == RetCb(op, err, val, list, calls, 0)

\* A fault plan: nav = the number of the positioning call inside the
\* operation that hits a lock failure (0: none), rst = the positioning call
\* of the deferred restore fails.
NoFault == [nav |-> 0, rst |-> FALSE]
Faults == [nav : 0..(MaxRows + 1), rst : BOOLEAN]

(* --------------------------- Go layer: cursor -------------------------- *)
Active == opened

\* (PositionRaw: a Position() that does not look at the flags.)
PositionRaw(e) == D4RecNo(e)
Position(e) == IF D4Eof(e) \/ D4Bof(e) THEN 0 - 1 ELSE D4RecNo(e)
BOFAlsoAtEof(e) == D4Bof(e) \/ D4Eof(e)
BOF(e) == D4Bof(e)
EOF(e) == D4Eof(e)

NavErr(r, msg) == [st |-> r.st, err |-> IF r.rc # 0 THEN msg ELSE NoErr]

\* (GotoByOrdering: a Goto that counts rows in the selected ordering.)
GotoByOrdering(e, recordidx, fail) ==
    IF recordidx <= 0 THEN [st |-> e, err |-> "invalid record index"]
    ELSE IF recordidx > D4RecCount(e) THEN NavErr(D4Go(e, recordidx), "failed to go to record")
    ELSE NavErr(IF fail THEN D4Locked(e) ELSE D4Go(e, RecAt(e, recordidx)),
                "failed to go to record")
Goto(e, recordidx, fail) ==
    IF recordidx <= 0 THEN [st |-> e, err |-> "invalid record index"]
    ELSE NavErr(IF fail THEN D4Locked(e) ELSE D4Go(e, recordidx), "failed to go to record")

Next_(e, fail) ==
    NavErr(IF fail THEN D4Locked(e) ELSE D4Skip(e, 1), "failed to move to next record")

Previous(e, fail) ==
    NavErr(IF fail THEN D4Locked(e) ELSE D4Skip(e, 0 - 1),
           "failed to move to previous record")

\* (SkipOne: a Skip that moves by one row in the direction asked for.)
SkipOne(e, num, fail) ==
    NavErr(IF fail THEN D4Locked(e)
           ELSE D4Skip(e, IF num > 0 THEN 1 ELSE IF num < 0 THEN 0 - 1 ELSE 0),
           "failed to skip records")
Skip(e, num, fail) ==
    NavErr(IF fail THEN D4Locked(e) ELSE D4Skip(e, num), "failed to skip records")

First(e, fail) ==
    NavErr(IF fail THEN D4Locked(e) ELSE D4Top(e), "failed to go to first record")

Last(e, fail) ==
    NavErr(IF fail THEN D4Locked(e) ELSE D4Bottom(e), "failed to go to last record")

(* ---------------------------- Go layer: tags --------------------------- *)
SelectedTag(e) == D4TagSelected(e)

\* A *Tag argument is nil (NoTag), a Tag whose tagPtr is nil (InvalidTag) or
\* a tag of the open table.
IsValid(tag) == tag # InvalidTag

\* A SelectTag that keeps the selected tag when it is given nil.
SelectTagIgnoresNil(e, tag) ==
    IF tag = NoTag THEN [st |-> e, err |-> NoErr]
    ELSE IF ~IsValid(tag) THEN [st |-> e, err |-> "invalid tag"]
    ELSE [st |-> D4TagSelect(e, tag), err |-> NoErr]

SelectTag(e, tag) ==
    IF tag = NoTag THEN [st |-> D4TagSelect(e, NoTag), err |-> NoErr]
    ELSE IF ~IsValid(tag) THEN [st |-> e, err |-> "invalid tag"]
    ELSE [st |-> D4TagSelect(e, tag), err |-> NoErr]

(* --------------------------- Go layer: handle -------------------------- *)
\* The fields of Vulpo besides data (codeBase, header, fieldDefs/fields: set
\* or nil) and the objects the caller holds: a Field and an ExprFilter,
\* "live" while the engine memory they point to is that of the open table,
\* "stale" once d4close has released it ("freed": the filter after Free);
\* expr is the text of the filter's expression, frees the number of times
\* the filter's compiled expression was handed to u4freeDefault.
NoObjects == [codeBase |-> FALSE, header |-> FALSE, fields |-> FALSE,
              field |-> "none", filter |-> "none", expr |-> "", frees |-> 0]

\* NewExprFilter on an open table, for an expression that parses: o holds
\* the new filter.
NewExprFilter(o, expression) ==
    [o EXCEPT !.filter = "live", !.expr = expression, !.frees = 0]

\* ExprFilter.Free: "if ef.expr != nil { u4freeDefault(ef.expr); ef.expr = nil }".
Free(o) ==
    IF o.filter \in {"live", "stale"}
    THEN [o EXCEPT !.filter = "freed", !.frees = @ + 1]
    ELSE o

\* ExprFilter.IsValid: the filter holds a compiled expression.
FilterIsValid(o) == o.filter \in {"live", "stale"}

OpenOk == "ok"
OpenNoFile == "d4open fails"
OpenNoHeader == "header unreadable"
OpenCountMismatch == "record count mismatch"
OpenNoFields == "no fields"

\* readHeader and readFieldDefs after a successful d4open.
readHeader(o, outcome) ==
    IF outcome = OpenNoHeader
    THEN [st |-> o, err |-> "failed to read DBF header"]
    ELSE IF outcome = OpenCountMismatch
    THEN [st |-> o, err |-> "header record count mismatch with codebase"]
    ELSE IF outcome = OpenNoFields
    THEN [st |-> [o EXCEPT !.header = TRUE], err |-> "no fields found in database"]
    ELSE [st |-> [o EXCEPT !.header = TRUE, !.fields = TRUE], err |-> NoErr]

\* The engine memory of the table is gone: what pointed into it is stale (a
\* freed filter points to nothing).
Released(h) == IF h \in {"none", "freed"} THEN h ELSE "stale"

\* reset: d4close, then the cleanup, which a failing d4close skips.
reset(o, fail) ==
    IF fail
    THEN [st |-> [o EXCEPT !.field = Released(@), !.filter = Released(@)],
          err |-> "failed to close database"]
    ELSE [st |-> [o EXCEPT !.codeBase = FALSE, !.header = FALSE, !.fields = FALSE,
                           !.field = Released(@), !.filter = Released(@)],
          err |-> NoErr]

(* -------------------------- Go layer: deletion ------------------------- *)
Deleted(e) == IF EOF(e) \/ BOF(e) THEN FALSE ELSE D4Deleted(e)

DeleteForgetsMark(e) ==
    IF EOF(e) \/ BOF(e) THEN [st |-> e, err |-> "no current record to delete"]
    ELSE [st |-> e, err |-> NoErr]

DeleteUnguarded(e) == [st |-> D4Delete(e), err |-> NoErr]

Delete(e) ==
    IF EOF(e) \/ BOF(e) THEN [st |-> e, err |-> "no current record to delete"]
    ELSE [st |-> D4Delete(e), err |-> NoErr]

\* (RecallEveryRow: a recall that clears the mark of every row.)
RecallEveryRow(e) ==
    IF EOF(e) \/ BOF(e) THEN [st |-> e, err |-> "no current record to recall"]
    ELSE [st |-> [e EXCEPT !.rows = [i \in 1..D4RecCount(e) |-> [e.rows[i] EXCEPT !.del = FALSE]]],
          err |-> NoErr]

Recall(e) ==
    IF EOF(e) \/ BOF(e) THEN [st |-> e, err |-> "no current record to recall"]
    ELSE [st |-> D4Recall(e), err |-> NoErr]

Pack(e, fail) ==
    IF fail THEN [st |-> e, err |-> "failed to pack database"]
    ELSE [st |-> D4Pack(e), err |-> NoErr]

(* ----------------------- Go layer: aggregate scans --------------------- *)
AggOps == {"CountDeleted", "CountActive", "ListDeletedRecords",
           "ForEachDeletedRecord", "RecallAllDeleted"}

\* The deferred function of the aggregate scans: select the saved tag, then
\* go back to the saved position when there was one.
RestoreStateKeepsScanOrder(e, originalPosition, originalTag, fail) ==
    IF originalPosition > 0 THEN Goto(e, originalPosition, fail).st ELSE e

RestoreState(e, originalPosition, originalTag, fail) ==
    LET e1 == SelectTag(e, originalTag).st
    IN  IF originalPosition > 0 THEN Goto(e1, originalPosition, fail).st ELSE e1

HitDeletedOnly(e, kind) == Deleted(e)

\* The row under the cursor counts for the scan.
Hit(e, kind) == IF kind = "CountActive" THEN ~Deleted(e) ELSE Deleted(e)

\* The loop "for !v.EOF() { classify; Next }".  acc.count, acc.list and
\* acc.calls are the counter, the collected record numbers and the number of
\* callback invocations, acc.rounds the number of rounds of the loop that
\* were begun; navs counts the positioning calls made so far;
\* cbFail is the number of the callback invocation that returns an error.
\* A walk that goes on after the callback has returned an error.
CallbackFailedNever(calls, cbFail) == FALSE

\* The callback of a walk returns an error at its cbFail-th call (never when
\* cbFail is 0).
CallbackFailed(calls, cbFail) == calls = cbFail

\* A scan that counts the flagged rows and recalls none.
RecallHitSkips(e, hit, kind) == e

\* "if v.Deleted() { C.d4recall(v.data); count++ }" of RecallAllDeleted.
RecallHit(e, hit, kind) ==
    IF hit /\ kind = "RecallAllDeleted" THEN D4Recall(e) ELSE e

RECURSIVE ScanLoop(_, _, _, _, _, _)
ScanLoop(e, kind, acc, navs, F, cbFail) ==
    IF EOF(e) THEN [st |-> e, acc |-> acc, err |-> NoErr]
    ELSE
      LET hit   == Hit(e, kind)
          calls == IF hit /\ kind = "ForEachDeletedRecord" THEN acc.calls + 1
                   ELSE acc.calls
          e1    == RecallHit(e, hit, kind)
          acc1  == [count |-> IF hit THEN acc.count + 1 ELSE acc.count,
                    list  |-> IF hit THEN Append(acc.list, Position(e)) ELSE acc.list,
                    calls |-> calls,
                    rounds |-> acc.rounds + 1]
      IN
        IF hit /\ kind = "ForEachDeletedRecord" /\ CallbackFailed(calls, cbFail)
        THEN [st |-> e1, acc |-> acc1, err |-> "callback error"]
        ELSE LET nx == Next_(e1, F.nav = navs + 1)
             IN  IF nx.err # NoErr
                 THEN [st |-> nx.st, acc |-> acc1, err |-> NoErr]
                 ELSE ScanLoop(nx.st, kind, acc1, navs + 1, F, cbFail)

\* A scan that walks under the ordering the caller had selected.
ScanOrderKeepsTag(e) == e

\* "v.SelectTag(nil)": the scans walk in physical order.
ScanOrder(e) == SelectTag(e, NoTag).st

\* The body shared by CountDeleted, CountActive, ListDeletedRecords,
\* ForEachDeletedRecord and RecallAllDeleted on an open table.
AggregateScan(e, kind, F, cbFail) ==
    LET originalPosition == Position(e)
        originalTag      == SelectedTag(e)
        acc0 == [count |-> 0, list |-> << >>, calls |-> 0, rounds |-> 0]
        e1   == ScanOrder(e)
        fst  == First(e1, F.nav = 1)
        body == IF fst.err # NoErr
                THEN [st |-> fst.st, acc |-> acc0, err |-> "failed to go to first record"]
                ELSE ScanLoop(fst.st, kind, acc0, 1, F, cbFail)
    IN  [st  |-> RestoreState(body.st, originalPosition, originalTag, F.rst),
         acc |-> IF body.err = "failed to go to first record" THEN acc0 ELSE body.acc,
         err |-> body.err]

CountDeleted(e, F) == AggregateScan(e, "CountDeleted", F, 0)
CountActive(e, F) == AggregateScan(e, "CountActive", F, 0)
ListDeletedRecords(e, F) == AggregateScan(e, "ListDeletedRecords", F, 0)
ForEachDeletedRecord(e, F, cbFail) == AggregateScan(e, "ForEachDeletedRecord", F, cbFail)
RecallAllDeleted(e, F) == AggregateScan(e, "RecallAllDeleted", F, 0)

(* ------------- Go layer: an aggregate scan, call by call --------------- *)
\* CountDeleted and CountActive as the sequence of calls they make on the
\* handle, one call per step, so that the calls of two goroutines can
\* interleave.  pc names the next call; originalPosition, originalTag, count
\* and err are the locals of the running call.  alone is what the same call
\* returns when nothing else runs between its first and its last step.
Goroutines == {1, 2}
ScanKinds == {"CountDeleted", "CountActive"}
IdleScan == [pc |-> "idle", kind |-> "", originalPosition |-> 0, originalTag |-> NoTag,
             count |-> 0, err |-> NoErr, alone |-> [count |-> 0, err |-> NoErr]]
\* before: Position() and SelectedTag() when the first of the running calls
\* began; overlap: a call began while another one was running.
NoScans == [run |-> [g \in Goroutines |-> IdleScan],
            before |-> [pos |-> 0, tag |-> NoTag], overlap |-> FALSE]

\* (ScanRestoreTagNever: a deferred function that leaves the ordering alone.)
ScanRestoreTagNever(e, r) == e
\* "_ = v.SelectTag(originalTag)" of the deferred function.
ScanRestoreTag(e, r) == SelectTag(e, r.originalTag).st

\* One call of the scan r on the engine state e.
ScanStep(e, r) ==
    IF r.pc = "Position"
    THEN [st |-> e, run |-> [r EXCEPT !.originalPosition = Position(e), !.pc = "SelectedTag"]]
    ELSE IF r.pc = "SelectedTag"
    THEN [st |-> e, run |-> [r EXCEPT !.originalTag = SelectedTag(e), !.pc = "SelectTag(nil)"]]
    ELSE IF r.pc = "SelectTag(nil)"
    THEN [st |-> SelectTag(e, NoTag).st,
          run |-> [r EXCEPT !.err = SelectTag(e, NoTag).err,
                            !.pc = IF SelectTag(e, NoTag).err # NoErr
                                   THEN "restore tag" ELSE "First"]]
    ELSE IF r.pc = "First"
    THEN [st |-> First(e, FALSE).st,
          run |-> [r EXCEPT !.err = IF First(e, FALSE).err # NoErr
                                    THEN "failed to go to first record" ELSE NoErr,
                            !.pc = IF First(e, FALSE).err # NoErr
                                   THEN "restore tag" ELSE "EOF"]]
    ELSE IF r.pc = "EOF"
    THEN [st |-> e, run |-> [r EXCEPT !.pc = IF EOF(e) THEN "restore tag" ELSE "Deleted"]]
    ELSE IF r.pc = "Deleted"
    THEN [st |-> e,
          run |-> [r EXCEPT !.count = IF Hit(e, r.kind) THEN @ + 1 ELSE @, !.pc = "Next"]]
    ELSE IF r.pc = "Next"
    THEN [st |-> Next_(e, FALSE).st,
          run |-> [r EXCEPT !.pc = IF Next_(e, FALSE).err # NoErr
                                   THEN "restore tag" ELSE "EOF"]]
    ELSE IF r.pc = "restore tag"
    THEN [st |-> ScanRestoreTag(e, r), run |-> [r EXCEPT !.pc = "restore position"]]
    ELSE [st |-> IF r.originalPosition > 0 THEN Goto(e, r.originalPosition, FALSE).st
                 ELSE e,
          run |-> [r EXCEPT !.pc = "done", !.originalPosition = 0, !.originalTag = NoTag]]

\* d4seekNext: when the current row already matches the key the search goes
\* on with the next index entry (r4entry when that entry holds another key);
\* otherwise it is a d4seek.
D4SeekNext(e, key, fault) ==
    IF e.tagSelected = NoTag THEN [st |-> e, rc |-> r4noTag]
    ELSE IF fault # 0 THEN [st |-> e, rc |-> fault]
    ELSE IF e.tagSelected # TagNAME THEN [st |-> e, rc |-> e4info]
    ELSE IF e.bofFlag \/ e.eofFlag \/ e.recNum < 1 \/ e.recNum > D4RecCount(e)
    THEN D4Seek(e, key, fault)
    ELSE IF KeyPart(e, e.recNum, key) # key THEN D4Seek(e, key, fault)
    ELSE IF OrdIndex(e) = D4RecCount(e) THEN D4GoEof(e)
    ELSE LET a == RecAt(e, OrdIndex(e) + 1)
         IN  [st |-> D4Go(e, a).st,
              rc |-> IF KeyPart(e, a, key) = key THEN r4success ELSE r4entry]

D4SeekNextDouble(e, k, fault) ==
    IF e.tagSelected = NoTag THEN [st |-> e, rc |-> r4noTag]
    ELSE IF fault # 0 THEN [st |-> e, rc |-> fault]
    ELSE IF e.tagSelected # TagRECID THEN [st |-> e, rc |-> e4info]
    ELSE IF e.bofFlag \/ e.eofFlag \/ e.recNum < 1 \/ e.recNum > D4RecCount(e)
    THEN D4SeekDouble(e, k, fault)
    ELSE IF e.rows[e.recNum].id # k THEN D4SeekDouble(e, k, fault)
    ELSE IF OrdIndex(e) = D4RecCount(e) THEN D4GoEof(e)
    ELSE LET a == RecAt(e, OrdIndex(e) + 1)
         IN  [st |-> D4Go(e, a).st,
              rc |-> IF e.rows[a].id = k THEN r4success ELSE r4entry]

(* ---------------------------- Go layer: seek --------------------------- *)
SeekSuccess == 0
SeekAfter == 1
SeekEOF == 2
SeekEntry == 3
SeekLocked == 4
SeekUnique == 5
SeekNoTag == 6
SeekError == 7

\* A classification that reports the end of the index as After.
convertSeekResultEofAsAfter(result) ==
    IF result = 0 THEN SeekSuccess
    ELSE IF result = 1 \/ result = 2 THEN SeekAfter
    ELSE IF result = 3 THEN SeekEntry
    ELSE IF result = 4 THEN SeekLocked
    ELSE IF result = 5 THEN SeekUnique
    ELSE IF result = 0 - 1 THEN SeekNoTag
    ELSE IF result < 0 THEN SeekError
    ELSE result

\* A classification without the case for r4noTag.
convertSeekResultNoTagAsError(result) ==
    IF result = 0 THEN SeekSuccess
    ELSE IF result = 1 THEN SeekAfter
    ELSE IF result = 2 THEN SeekEOF
    ELSE IF result = 3 THEN SeekEntry
    ELSE IF result = 4 THEN SeekLocked
    ELSE IF result = 5 THEN SeekUnique
    ELSE IF result < 0 THEN SeekError
    ELSE result

convertSeekResult(result) ==
    IF result = 0 THEN SeekSuccess
    ELSE IF result = 1 THEN SeekAfter
    ELSE IF result = 2 THEN SeekEOF
    ELSE IF result = 3 THEN SeekEntry
    ELSE IF result = 4 THEN SeekLocked
    ELSE IF result = 5 THEN SeekUnique
    ELSE IF result = 0 - 1 THEN SeekNoTag
    ELSE IF result < 0 THEN SeekError
    ELSE result

IsPositioned(sr) == sr = SeekSuccess \/ sr = SeekAfter

Seek(e, searchValue, fault) ==
    LET r == D4Seek(e, searchValue, fault)
    IN  [st |-> r.st, res |-> convertSeekResult(r.rc), err |-> NoErr]

SeekDouble(e, searchValue, fault) ==
    LET r == D4SeekDouble(e, searchValue, fault)
    IN  [st |-> r.st, res |-> convertSeekResult(r.rc), err |-> NoErr]

SeekNext(e, searchValue, fault) ==
    LET r == D4SeekNext(e, searchValue, fault)
    IN  [st |-> r.st, res |-> convertSeekResult(r.rc), err |-> NoErr]

SeekNextDouble(e, searchValue, fault) ==
    LET r == D4SeekNextDouble(e, searchValue, fault)
    IN  [st |-> r.st, res |-> convertSeekResult(r.rc), err |-> NoErr]

SeekWithTagNoRestore(e, tag, searchValue, fault) ==
    IF tag = NoTag THEN [st |-> e, res |-> SeekError, err |-> "tag cannot be nil"]
    ELSE IF ~IsValid(tag) THEN [st |-> e, res |-> SeekError, err |-> "invalid tag"]
    ELSE Seek(SelectTag(e, tag).st, searchValue, fault)

\* A scoped seek that does not look at the tag it is given.
SeekWithTagUnchecked(e, tag, searchValue, fault) ==
    LET originalTag == SelectedTag(e)
        r == Seek(SelectTag(e, tag).st, searchValue, fault)
    IN  [st |-> SelectTag(r.st, originalTag).st, res |-> r.res, err |-> r.err]

SeekWithTag(e, tag, searchValue, fault) ==
    IF tag = NoTag THEN [st |-> e, res |-> SeekError, err |-> "tag cannot be nil"]
    ELSE IF ~IsValid(tag) THEN [st |-> e, res |-> SeekError, err |-> "invalid tag"]
    ELSE LET originalTag == SelectedTag(e)
             sel == SelectTag(e, tag)
         IN  IF sel.err # NoErr THEN [st |-> sel.st, res |-> SeekError, err |-> sel.err]
             ELSE LET r == Seek(sel.st, searchValue, fault)
                  IN  [st |-> SelectTag(r.st, originalTag).st, res |-> r.res,
                       err |-> r.err]

SeekDoubleWithTag(e, tag, searchValue, fault) ==
    IF tag = NoTag THEN [st |-> e, res |-> SeekError, err |-> "tag cannot be nil"]
    ELSE IF ~IsValid(tag) THEN [st |-> e, res |-> SeekError, err |-> "invalid tag"]
    ELSE LET originalTag == SelectedTag(e)
             sel == SelectTag(e, tag)
         IN  IF sel.err # NoErr THEN [st |-> sel.st, res |-> SeekError, err |-> sel.err]
             ELSE LET r == SeekDouble(sel.st, searchValue, fault)
                  IN  [st |-> SelectTag(r.st, originalTag).st, res |-> r.res,
                       err |-> r.err]

(* ------------------------- regexp (Go's regexp) ------------------------ *)
\* The patterns use literals, ".", "^", "$" and "*" after a literal or ".".
Meta == {".", "*", "+", "?", "[", "]", "(", ")", "{", "}", "|", "\\", "$"}

\* regexp.Compile fails on a "*" with nothing to repeat.
CompileOk(pattern) ==
    \A i \in 1..Len(pattern) :
        pattern[i] = "*" => (i > 1 /\ pattern[i - 1] \notin {"*", "^", "$"})

RECURSIVE ParseItems(_)
ParseItems(pattern) ==
    IF pattern = << >> THEN << >>
    ELSE LET c    == pattern[1]
             star == Len(pattern) >= 2 /\ pattern[2] = "*"
             kind == IF c = "^" THEN "bol" ELSE IF c = "$" THEN "eol"
                     ELSE IF c = "." THEN "any" ELSE "lit"
         IN  <<[kind |-> kind, ch |-> c, star |-> star]>>
             \o ParseItems(SubSeq(pattern, IF star THEN 3 ELSE 2, Len(pattern)))

Upper(c) == IF c = "a" THEN "A" ELSE IF c = "b" THEN "B" ELSE c

CharMatch(it, c, ci) ==
    \/ it.kind = "any"
    \/ it.ch = c
    \/ (ci /\ Upper(it.ch) = Upper(c))

\* The first way to match, or the other one when the first finds nothing.
OrElse(first, other) == IF first # 0 THEN first ELSE other

\* Leftmost-first match of the items at position j of s: the position after
\* the match, or 0 when there is none ("*" is greedy).
RECURSIVE MatchHere(_, _, _, _)
MatchHere(items, s, j, ci) ==
    IF items = << >> THEN j
    ELSE IF items[1].kind = "bol"
    THEN (IF j = 1 THEN MatchHere(Tail(items), s, j, ci) ELSE 0)
    ELSE IF items[1].kind = "eol"
    THEN (IF j = Len(s) + 1 THEN MatchHere(Tail(items), s, j, ci) ELSE 0)
    ELSE IF j <= Len(s) /\ CharMatch(items[1], s[j], ci)
    THEN (IF items[1].star
          THEN OrElse(MatchHere(items, s, j + 1, ci), MatchHere(Tail(items), s, j, ci))
          ELSE MatchHere(Tail(items), s, j + 1, ci))
    ELSE (IF items[1].star THEN MatchHere(Tail(items), s, j, ci) ELSE 0)

\* FindAllStringIndex(s, -1): the successive non-overlapping matches as
\* 0-based [start, end) pairs; an empty match right after a match is dropped.
\* found holds the matches <<start, end>> that begin at pos or later.
RECURSIVE FindAllFrom(_, _, _, _, _)
FindAt(items, s, pos, prevMatchEnd, ci, m) ==
    (IF m[2] = pos /\ m[1] = prevMatchEnd THEN << >> ELSE <<(<<m[1] - 1, m[2] - 1>>)>>)
    \o FindAllFrom(items, s, IF m[2] = pos THEN pos + 1 ELSE m[2], m[2], ci)

FindIn(items, s, pos, prevMatchEnd, ci, found) ==
    IF found = {} THEN << >>
    ELSE FindAt(items, s, pos, prevMatchEnd, ci,
                CHOOSE m \in found : \A n \in found : m[1] <= n[1])

FindAllFrom(items, s, pos, prevMatchEnd, ci) ==
    FindIn(items, s, pos, prevMatchEnd, ci,
           {m \in {<<a, MatchHere(items, s, a, ci)>> : a \in pos..(Len(s) + 1)} : m[2] # 0})

\* regexp.Compile of the pattern, with the (?i) flag when ci.
Compile(pattern, ci) == [items |-> ParseItems(pattern), ci |-> ci]

FindAllStringIndex(compiled, s) == FindAllFrom(compiled.items, s, 1, 0, compiled.ci)

(* ------------------------ Go layer: regex search ----------------------- *)
\* isSimplePrefix: "^" followed by at least one literal before the first
\* metacharacter (only the first characters are inspected).
FirstMeta(str) == IF \E i \in 1..Len(str) : str[i] \in Meta
                  THEN Min({i \in 1..Len(str) : str[i] \in Meta})
                  ELSE 0

isSimplePrefix(pattern) ==
    IF Len(pattern) < 2 \/ pattern[1] # "^" THEN FALSE
    ELSE LET m == FirstMeta(Tail(pattern))
         IN  IF m # 0 /\ m - 1 <= 10 THEN m - 1 > 0 ELSE TRUE

extractPrefix(pattern) ==
    IF Len(pattern) < 2 \/ pattern[1] # "^" THEN << >>
    ELSE LET m == FirstMeta(Tail(pattern))
         IN  IF m # 0 THEN SubSeq(Tail(pattern), 1, m - 1) ELSE Tail(pattern)

\* ListTags: the tags of the table in the engine's order.
TagList == <<TagNAME, TagRECID>>
ListTags(e) == SelectSeq(TagList, LAMBDA t : t \in e.tags)

Suffix(str, n) == SubSeq(str, Len(str) - n + 1, Len(str))

findTagForField(e, fieldName) ==
    LET tags  == ListTags(e)
        exact == {i \in 1..Len(tags) :
                     tags[i] = fieldName \/ tags[i] = fieldName \o <<"_", "I", "D", "X">>}
        part  == {i \in 1..Len(tags) :
                     /\ Len(tags[i]) > Len(fieldName)
                     /\ \/ SubSeq(tags[i], 1, Len(fieldName)) = fieldName
                        \/ Suffix(tags[i], Len(fieldName)) = fieldName}
    IN  IF exact # {} THEN tags[Min(exact)]
        ELSE IF part # {} THEN tags[Min(part)]
        ELSE NoTag

\* AsString of the character column at the cursor ("" when not on a row).
AsString(e) == IF BOF(e) \/ EOF(e) \/ ~OnRow(e) THEN << >> ELSE TrimSpace(e.rows[e.recNum].val)

NilOptions == [isNil |-> TRUE, ci |-> FALSE, max |-> 0, useIndex |-> FALSE]
Options(ci, max, useIndex) == [isNil |-> FALSE, ci |-> ci, max |-> max, useIndex |-> useIndex]

NoResult == [matches |-> << >>, scanned |-> 0]

\* One row of a walk: it is counted, and kept when the pattern matches.
AddMatch(res, rec, spans) ==
    [res EXCEPT !.scanned = @ + 1,
                !.matches = IF Len(spans) > 0
                            THEN Append(@, [rec |-> rec, spans |-> spans]) ELSE @]

\* The walk of both searches; prefix is the literal prefix the index walk
\* stops at, and << >> in the full scan, which has no such test.  nx is the
\* outcome of the call of Next that ends the round.
RECURSIVE RegexLoop(_, _, _, _, _, _, _)
\* (RegexStepStartsOver: a walk that goes back to the first row when it
\* reaches the end, until it has looked at more rows than the table has.)
RegexStepStartsOver(nx, compiled, opt, prefix, res, navs, F) ==
    IF nx.err # NoErr /\ res.scanned > D4RecCount(nx.st)
    THEN [st |-> nx.st, res |-> res, err |-> NoErr]
    ELSE IF nx.err # NoErr
    THEN RegexLoop(First(nx.st, FALSE).st, compiled, opt, prefix, res, navs + 1, F)
    ELSE RegexLoop(nx.st, compiled, opt, prefix, res, navs + 1, F)

RegexStep(nx, compiled, opt, prefix, res, navs, F) ==
    IF nx.err # NoErr THEN [st |-> nx.st, res |-> res, err |-> NoErr]
    ELSE RegexLoop(nx.st, compiled, opt, prefix, res, navs + 1, F)

RegexLoop(e, compiled, opt, prefix, res, navs, F) ==
    IF EOF(e) \/ ~(opt.max = 0 \/ Len(res.matches) < opt.max)
    THEN [st |-> e, res |-> res, err |-> NoErr]
    ELSE IF ~HasPrefix(AsString(e), prefix)
    THEN [st |-> e, res |-> [res EXCEPT !.scanned = @ + 1], err |-> NoErr]
    ELSE RegexStep(Next_(e, F.nav = navs + 1), compiled, opt, prefix,
                   AddMatch(res, Position(e), FindAllStringIndex(compiled, AsString(e))),
                   navs, F)

\* The walk from the row the seek sk found, if it found one.
IndexWalk(sk, compiled, opt, prefix, F) ==
    IF ~IsPositioned(sk.res) THEN [st |-> sk.st, res |-> NoResult, err |-> NoErr]
    ELSE RegexLoop(sk.st, compiled, opt, prefix, NoResult, 0, F)

\* performIndexPrefixSearch when a tag is found for the field; the deferred
\* call restores the ordering and the position saved on entry.
performIndexPrefixSearchKeepsTag(e, fieldName, prefix, compiled, opt, F, seekFault) ==
    [IndexWalk(Seek(SelectTag(e, findTagForField(e, fieldName)).st, prefix, seekFault),
               compiled, opt, prefix, F)
       EXCEPT !.st = IF Position(e) > 0 THEN Goto(@, Position(e), F.rst).st ELSE @]

performIndexPrefixSearch(e, fieldName, prefix, compiled, opt, F, seekFault) ==
    [IndexWalk(Seek(SelectTag(e, findTagForField(e, fieldName)).st, prefix, seekFault),
               compiled, opt, prefix, F)
       EXCEPT !.st = RestoreState(@, Position(e), SelectedTag(e), F.rst)]

\* The value tryIndexOptimization returns: whether the index walk was made.
\* (SelectTag and Seek do not fail on an open table with a tag of the table.)
Optimized(e, fieldName, pattern, opt) ==
    /\ isSimplePrefix(pattern) /\ ~opt.ci
    /\ Len(extractPrefix(pattern)) > 0
    /\ findTagForField(e, fieldName) # NoTag

tryIndexOptimization(e, fieldName, pattern, compiled, opt, F, seekFault) ==
    performIndexPrefixSearch(e, fieldName, extractPrefix(pattern), compiled, opt,
                             F, seekFault)

\* The walk from the first row, the outcome fst of First.
FullWalk(fst, compiled, opt, F) ==
    IF fst.err # NoErr THEN [st |-> fst.st, res |-> NoResult, err |-> fst.err]
    ELSE RegexLoop(fst.st, compiled, opt, << >>, NoResult, 1, F)

performFullRegexScan(e, compiled, opt, F) ==
    [FullWalk(First(e, F.nav = 1), compiled, opt, F)
       EXCEPT !.st = IF Position(e) > 0 THEN Goto(@, Position(e), F.rst).st ELSE @]

\* The columns of the table: NAME is a character column, RECID a numeric one.
FieldNames == {FieldNAME, FieldRECID}
CharacterFields == {FieldNAME}

\* A search that goes to the first row before it looks at its arguments.
RegexSearchChecksLate(e, fieldName, pattern, options, F, seekFault) ==
    LET opt == IF options.isNil THEN Options(FALSE, 0, TRUE) ELSE options
    IN  IF fieldName \notin CharacterFields \/ ~CompileOk(pattern)
        THEN [st |-> First(e, FALSE).st, res |-> NoResult, err |-> "invalid argument"]
        ELSE IF opt.useIndex /\ Optimized(e, fieldName, pattern, opt)
        THEN tryIndexOptimization(e, fieldName, pattern, Compile(pattern, opt.ci), opt,
                                  F, seekFault)
        ELSE performFullRegexScan(e, Compile(pattern, opt.ci), opt, F)

RegexSearch(e, fieldName, pattern, options, F, seekFault) ==
    LET opt == IF options.isNil THEN Options(FALSE, 0, TRUE) ELSE options
    IN  IF fieldName \notin FieldNames
        THEN [st |-> e, res |-> NoResult, err |-> "field not found"]
        ELSE IF fieldName \notin CharacterFields
        THEN [st |-> e, res |-> NoResult, err |-> "field is not a character field"]
        ELSE IF ~CompileOk(pattern)
        THEN [st |-> e, res |-> NoResult, err |-> "invalid regex pattern"]
        ELSE IF opt.useIndex /\ Optimized(e, fieldName, pattern, opt)
        THEN tryIndexOptimization(e, fieldName, pattern, Compile(pattern, opt.ci), opt,
                                  F, seekFault)
        ELSE performFullRegexScan(e, Compile(pattern, opt.ci), opt, F)

RegexCount(e, fieldName, pattern, options, F, seekFault) ==
    LET o == IF options.isNil THEN Options(FALSE, 0, FALSE) ELSE options
    IN  RegexSearch(e, fieldName, pattern, [o EXCEPT !.max = 0], F, seekFault)

RegexExists(e, fieldName, pattern, options, F, seekFault) ==
    LET o == IF options.isNil THEN Options(FALSE, 0, FALSE) ELSE options
    IN  RegexSearch(e, fieldName, pattern, [o EXCEPT !.max = 1], F, seekFault)

(* --------------------- engine: dBASE expressions ----------------------- *)
ExprDeleted == "DELETED()"
ExprTrue    == ".T."
ExprRecno   == "RECNO() > 1"
ExprName    == "NAME = 'AB'"
ExprBad     == "(("

\* expr4parseLow: NULL for text that is no expression.
D4ExprParse(expression) == expression # ExprBad

\* expr4true at the current row.
D4ExprTrue(e, expression) ==
    LET row == e.rows[e.recNum]
    IN  CASE expression = ExprDeleted -> row.del
          [] expression = ExprTrue    -> TRUE
          [] expression = ExprRecno   -> e.recNum > 1
          [] expression = ExprName    -> row.val = Pad(<<"A", "B">>)

(* --------------------- Go layer: expression search --------------------- *)
NoAcc == [count |-> 0, list |-> << >>, calls |-> 0, scanned |-> 0]

RECURSIVE ExprLoop(_, _, _, _, _, _, _, _)
ExprLoop(e, kind, expression, maxResults, acc, navs, F, cbFail) ==
    IF EOF(e) THEN [st |-> e, acc |-> acc, err |-> NoErr]
    ELSE
      LET matches == D4ExprTrue(e, expression)
          acc1 == [acc EXCEPT !.scanned = @ + 1]
          acc2 == IF ~matches THEN acc1
                  ELSE [acc1 EXCEPT !.count = @ + 1,
                                    !.list  = Append(@, Position(e)),
                                    !.calls = IF kind = "ForEachExpressionMatch"
                                              THEN @ + 1 ELSE @]
          nx   == Next_(e, F.nav = navs + 1)
      IN  IF matches /\ kind = "SearchByExpression"
             /\ maxResults > 0 /\ acc2.count >= maxResults
          THEN [st |-> e, acc |-> acc2, err |-> NoErr]
          ELSE IF matches /\ kind = "ForEachExpressionMatch"
                  /\ CallbackFailed(acc2.calls, cbFail)
          THEN [st |-> e, acc |-> acc2, err |-> "callback error"]
          ELSE IF nx.err # NoErr THEN [st |-> nx.st, acc |-> acc2, err |-> NoErr]
          ELSE ExprLoop(nx.st, kind, expression, maxResults, acc2, navs + 1, F, cbFail)

\* (ExprSearchFreesLate: the Free is deferred only once First has succeeded.)
ExprSearchFreesLate(e, kind, expression, maxResults, F, cbFail) ==
    IF ~D4ExprParse(expression)
    THEN [st |-> e, acc |-> NoAcc, err |-> "failed to create expression filter",
          filter |-> NoObjects]
    ELSE
      LET originalPosition == Position(e)
          fst  == First(e, F.nav = 1)
          body == IF fst.err # NoErr
                  THEN [st |-> fst.st, acc |-> NoAcc,
                        err |-> "failed to go to first record"]
                  ELSE ExprLoop(fst.st, kind, expression, maxResults, NoAcc, 1, F, cbFail)
      IN  [st  |-> IF originalPosition > 0
                   THEN Goto(body.st, originalPosition, F.rst).st ELSE body.st,
           acc |-> body.acc,
           err |-> body.err,
           filter |-> IF fst.err # NoErr THEN NewExprFilter(NoObjects, expression)
                      ELSE Free(NewExprFilter(NoObjects, expression))]

\* filter: the filter the operation created, as it is when the operation
\* returns; "defer filter.Free()" follows its creation.
ExprSearch(e, kind, expression, maxResults, F, cbFail) ==
    IF ~D4ExprParse(expression)
    THEN [st |-> e, acc |-> NoAcc, err |-> "failed to create expression filter",
          filter |-> NoObjects]
    ELSE
      LET originalPosition == Position(e)
          fst  == First(e, F.nav = 1)
          body == IF fst.err # NoErr
                  THEN [st |-> fst.st, acc |-> NoAcc,
                        err |-> "failed to go to first record"]
                  ELSE ExprLoop(fst.st, kind, expression, maxResults, NoAcc, 1, F, cbFail)
      IN  [st  |-> IF originalPosition > 0
                   THEN Goto(body.st, originalPosition, F.rst).st ELSE body.st,
           acc |-> body.acc,
           err |-> body.err,
           filter |-> Free(NewExprFilter(NoObjects, expression))]

SearchByExpression(e, expression, maxResults, F) ==
    ExprSearch(e, "SearchByExpression", expression, maxResults, F, 0)

\* A count that stops at the first match.
CountByExpressionFirstOnly(e, expression, F) ==
    ExprSearch(e, "SearchByExpression", expression, 1, F, 0)

CountByExpression(e, expression, F) ==
    ExprSearch(e, "CountByExpression", expression, 0, F, 0)

ForEachExpressionMatch(e, expression, F, cbFail) ==
    ExprSearch(e, "ForEachExpressionMatch", expression, 0, F, cbFail)

(* ------------------------ Go layer: typed readers ---------------------- *)
FieldTypes == {"character", "integer", "numeric", "logical", "double", "float",
               "memo", "date", "datetime", "currency"}
Readers == {"Value", "AsString", "AsInt", "AsFloat", "AsBool", "AsTime", "IsNull"}

\* baseField.checkActive.
checkActive(act, e) ==
    IF ~act THEN "database not open"
    ELSE IF BOF(e) THEN "positioned at beginning of file (BOF)"
    ELSE IF EOF(e) THEN "positioned at end of file (EOF)"
    ELSE NoErr

\* The readers whose whole body is "return NewConversionError(...)".
Unsupported(ftype, reader) ==
    \/ reader = "AsTime" /\ ftype \in {"integer", "numeric", "logical", "double",
                                       "float", "memo", "currency"}
    \/ ftype = "memo" /\ reader \in {"AsInt", "AsFloat"}

ConversionError == "cannot convert"
\* What a read through a pointer into released engine memory can do besides
\* returning a value.
Crash == "fatal signal"

\* A typed read on a Field of type ftype held by the caller.  held is "live"
\* or "stale"; convertible: the stored bytes convert to the type asked for;
\* crash: the read of released memory faults.
FieldRead(act, e, held, ftype, reader, convertible, crash) ==
    IF Unsupported(ftype, reader) THEN [err |-> ConversionError, val |-> FALSE]
    ELSE IF checkActive(act, e) # NoErr THEN [err |-> checkActive(act, e), val |-> FALSE]
    ELSE IF held = "stale" /\ crash THEN [err |-> Crash, val |-> FALSE]
    ELSE IF reader # "IsNull" /\ ~convertible THEN [err |-> ConversionError, val |-> FALSE]
    ELSE [err |-> NoErr, val |-> TRUE]

\* ExprFilter.Evaluate: only the filter's own pointer is tested.  guess is
\* what expr4true makes of memory that holds no row of the open table.
Evaluate(act, e, o, guess, crash) ==
    IF o.filter = "freed"
    THEN [err |-> "expression filter is not initialized", val |-> FALSE]
    ELSE IF o.filter = "stale"
    THEN [err |-> IF crash THEN Crash ELSE NoErr, val |-> ~crash /\ guess]
    ELSE IF act /\ OnRow(e) THEN [err |-> NoErr, val |-> D4ExprTrue(e, o.expr)]
    ELSE [err |-> NoErr, val |-> guess]

(* --------------------------- Julian day numbers ------------------------ *)
\* Go's integer division: the quotient is truncated toward zero.
GoDiv(a, b) == IF a >= 0 THEN a \div b ELSE 0 - ((0 - a) \div b)

\* (JulianToYMDOldStyle: the conversion without the century correction.)
JulianToYMDOldStyle(jd) ==
    LET c == jd + 32082
        d == GoDiv(4 * c + 3, 1461)
        e == c - GoDiv(1461 * d, 4)
        m == GoDiv(5 * e + 2, 153)
    IN  [year  |-> d - 4800 + GoDiv(m, 10),
         month |-> m + 3 - 12 * GoDiv(m, 10),
         day   |-> e - GoDiv(153 * m + 2, 5) + 1]
JulianToYMD(jd) ==
    LET a == jd + 32044
        b == GoDiv(4 * a + 3, 146097)
        c == a - GoDiv(146097 * b, 4)
        d == GoDiv(4 * c + 3, 1461)
        e == c - GoDiv(1461 * d, 4)
        m == GoDiv(5 * e + 2, 153)
    IN  [year  |-> 100 * b + d - 4800 + GoDiv(m, 10),
         month |-> m + 3 - 12 * GoDiv(m, 10),
         day   |-> e - GoDiv(153 * m + 2, 5) + 1]

IsLeap(y) == (y % 4 = 0 /\ y % 100 # 0) \/ y % 400 = 0
DaysInMonth(y, m) ==
    IF m = 2 THEN (IF IsLeap(y) THEN 29 ELSE 28)
    ELSE IF m \in {4, 6, 9, 11} THEN 30 ELSE 31
RECURSIVE DayOfYear(_, _, _)
DayOfYear(y, m, d) == IF m = 1 THEN d ELSE DaysInMonth(y, m - 1) + DayOfYear(y, m - 1, d)
DaysBeforeYear(y) ==
    365 * (y - 1) + ((y - 1) \div 4) - ((y - 1) \div 100) + ((y - 1) \div 400)
\* The engine's date4long: the Julian day number of a calendar date.
date4long(y, m, d) == DaysBeforeYear(y) + DayOfYear(y, m, d) + 1721425

(* ------------------------------- inputs -------------------------------- *)
Keys == {<<"A">>, <<"A", "B">>, <<"B">>}
NumKeys == 1..(MaxRows + 1)
\* A positive result code that convertSeekResult does not list.
r4other == 8
SeekFaults == {0, r4entry, r4locked, r4unique, e4info, r4other}
TagArgs == AllTags \cup {NoTag, InvalidTag}
NotOpen == "database not open"
\* Fault plans that differ only in calls the operation never makes give the
\* same run: keep one of each.
Plans(e, FS) == {F \in FS : F.nav <= D4RecCount(e) + 1 /\ (F.rst => Position(e) > 0)}
NumDeleted(e) == Cardinality({i \in 1..D4RecCount(e) : e.rows[i].del})
\* The key is not looked at when the seek is refused or fails.
KeyUsed(tag, sf, key, key0) == (tag \in {NoTag, InvalidTag} \/ sf # 0) => key = key0
\* Whether the only positioning call of a single-call operation fails.
FailFlags(FS) == {F.nav = 1 : F \in FS}

Patterns == { <<"^", "A">>, <<"^", "A", "B">>, <<"^", "A", "B", "*">>, <<"^", "a">>,
              <<"B">>, <<"A", "*">>, <<"*", "A">> }
MaxResultsArgs == {0, 1}
RegexOptions == {NilOptions, Options(TRUE, 0, TRUE)}
                \cup {Options(FALSE, m, u) : m \in MaxResultsArgs, u \in BOOLEAN}
\* RegexCount and RegexExists overwrite MaxResults.
CountOptions == {NilOptions, Options(FALSE, 0, TRUE)}
FieldArgs == FieldNames \cup {<<"?">>}
\* The calls tried: every pattern and option on the character column
\* without failures; positioning failures with the default options and with
\* the plain full scan; a failing seek where the index walk makes one; and
\* one call for each column that is refused.
RegexCall(fieldName, pattern, options, F, sf) ==
    [fieldName |-> fieldName, pattern |-> pattern, options |-> options, F |-> F, sf |-> sf]
RegexCalls(e, OS, FS, SFS) ==
    {RegexCall(f, <<"^", "A">>, NilOptions, NoFault, 0) : f \in FieldArgs \ CharacterFields}
    \cup {RegexCall(FieldNAME, p, o, NoFault, 0) : p \in Patterns, o \in OS}
    \cup {RegexCall(FieldNAME, p, o, F, 0) :
              p \in Patterns, o \in OS \cap {NilOptions, Options(FALSE, 0, FALSE)},
              F \in Plans(e, FS) \ {NoFault}}
    \cup {RegexCall(FieldNAME, p, NilOptions, NoFault, sf) :
              p \in {q \in Patterns : isSimplePrefix(q) /\ findTagForField(e, FieldNAME) # NoTag},
              sf \in SFS \ {0}}
Exprs == {ExprDeleted, ExprTrue, ExprRecno, ExprName, ExprBad}
NumMatching(e, expression) ==
    IF ~D4ExprParse(expression) THEN 0
    ELSE Cardinality({i \in 1..D4RecCount(e) :
                         D4ExprTrue([e EXCEPT !.recNum = i], expression)})

Done(op, r) == /\ data' = r.st
               /\ ret' = Ret(op, r.err, 0, << >>, 0)
               /\ UNCHANGED <<opened, obj, scans>>

\* A handle without the Active test at the head of its methods.
RefusedQuietly(op, val) == /\ ret' = Ret(op, NoErr, val, << >>, 0)
                           /\ UNCHANGED <<opened, data, obj, scans>>
Refused(op, val) == /\ ret' = Ret(op, NotOpen, val, << >>, 0)
                    /\ UNCHANGED <<opened, data, obj, scans>>

(* ------------------------------- actions ------------------------------- *)
Init == /\ opened = FALSE
        /\ data = NoData
        /\ obj = NoObjects
        /\ scans = NoScans
        /\ ret = Ret("new", NoErr, 0, << >>, 0)

\* Open(filename).  outcome is what the file and the engine make of the call:
\* the table opens, d4open fails, or readHeader fails at one of its tests
\* after d4open has succeeded; TS: the tables the file can hold.
\* (OpenActUnguarded: an Open without the test for an open handle.)
OpenActUnguarded(OS, TS) ==
    \E outcome \in OS, t \in TS, tg \in TagSets :
        /\ opened' = TRUE
        /\ data' = D4Open(t, tg)
        /\ obj' = readHeader([obj EXCEPT !.codeBase = TRUE], outcome).st
        /\ ret' = Ret("Open", readHeader(obj, outcome).err, 0, << >>, 0)
        /\ UNCHANGED scans
OpenAct(OS, TS) ==
    IF Active
    THEN /\ ret' = Ret("Open", "database already open", 0, << >>, 0)
         /\ UNCHANGED <<opened, data, obj, scans>>
    ELSE \E outcome \in OS :
           IF outcome = OpenNoFile
           THEN /\ ret' = Ret("Open", "failed to open database file", 0, << >>, 0)
                /\ obj' = [obj EXCEPT !.codeBase = FALSE]
                /\ UNCHANGED <<opened, data, scans>>
           ELSE \E t \in TS, tg \in TagSets :
                  /\ opened' = TRUE
                  /\ data' = D4Open(t, tg)
                  /\ obj' = readHeader([obj EXCEPT !.codeBase = TRUE], outcome).st
                  /\ ret' = Ret("Open", readHeader(obj, outcome).err, 0, << >>, 0)
                  /\ UNCHANGED scans

\* Close().  fail: d4close reports a failure.
CloseAct(CF) ==
    IF ~Active THEN Refused("Close", 0)
    ELSE \E fail \in CF :
           /\ opened' = FALSE
           /\ data' = NoData
           /\ obj' = reset(obj, fail).st
           /\ ret' = Ret("Close", reset(obj, fail).err, 0, << >>, 0)
           /\ UNCHANGED scans

GotoAct(FS) ==
    \E n \in 0..(MaxRows + 1), fail \in FailFlags(FS) :
        IF ~Active THEN Refused("Goto", 0) ELSE Done("Goto", Goto(data, n, fail))

NextAct(FS) ==
    \E fail \in FailFlags(FS) :
        IF ~Active THEN Refused("Next", 0) ELSE Done("Next", Next_(data, fail))

PreviousAct(FS) ==
    \E fail \in FailFlags(FS) :
        IF ~Active THEN Refused("Previous", 0)
        ELSE Done("Previous", Previous(data, fail))

SkipAct(FS) ==
    \E num \in {0 - 2, 0, 2}, fail \in FailFlags(FS) :
        IF ~Active THEN Refused("Skip", 0) ELSE Done("Skip", Skip(data, num, fail))

FirstAct(FS) ==
    \E fail \in FailFlags(FS) :
        IF ~Active THEN Refused("First", 0) ELSE Done("First", First(data, fail))

LastAct(FS) ==
    \E fail \in FailFlags(FS) :
        IF ~Active THEN Refused("Last", 0) ELSE Done("Last", Last(data, fail))

SelectTagDone(r, tag) ==
    /\ data' = r.st
    /\ ret' = [Ret("SelectTag", r.err, 0, << >>, 0) EXCEPT !.tag = tag]
    /\ UNCHANGED <<opened, obj, scans>>

SelectTagAct ==
    \E tag \in TagArgs :
        /\ tag \in AllTags => tag \in data.tags
        /\ IF ~Active THEN Refused("SelectTag", 0)
           ELSE SelectTagDone(SelectTag(data, tag), tag)

SeekDone(op, r, key) ==
    /\ data' = r.st
    /\ ret' = [Ret(op, r.err, r.res, << >>, 0) EXCEPT !.key = key]
    /\ UNCHANGED <<opened, obj, scans>>

SeekTagDone(op, r, key, tag) ==
    /\ data' = r.st
    /\ ret' = [Ret(op, r.err, r.res, << >>, 0) EXCEPT !.key = key, !.tag = tag]
    /\ UNCHANGED <<opened, obj, scans>>

SeekAct(SFS) ==
    \E key \in Keys, sf \in SFS :
        /\ KeyUsed(TagNAME, sf, key, <<"A">>)
        /\ IF ~Active THEN Refused("Seek", SeekError)
           ELSE SeekDone("Seek", Seek(data, key, sf), key)

SeekDoubleAct(SFS) ==
    \E k \in NumKeys, sf \in SFS :
        /\ KeyUsed(TagRECID, sf, k, 1)
        /\ IF ~Active THEN Refused("SeekDouble", SeekError)
           ELSE SeekDone("SeekDouble", SeekDouble(data, k, sf), k)

SeekNextAct(SFS) ==
    \E key \in Keys, sf \in SFS :
        /\ KeyUsed(TagNAME, sf, key, <<"A">>)
        /\ IF ~Active THEN Refused("SeekNext", SeekError)
           ELSE SeekDone("SeekNext", SeekNext(data, key, sf), key)

SeekNextDoubleAct(SFS) ==
    \E k \in NumKeys, sf \in SFS :
        /\ KeyUsed(TagRECID, sf, k, 1)
        /\ IF ~Active THEN Refused("SeekNextDouble", SeekError)
           ELSE SeekDone("SeekNextDouble", SeekNextDouble(data, k, sf), k)

SeekWithTagAct(SFS) ==
    \E tag \in TagArgs, key \in Keys, sf \in SFS :
        /\ tag \in AllTags => tag \in data.tags
        /\ KeyUsed(tag, sf, key, <<"A">>)
        /\ tag \in {NoTag, InvalidTag} => sf = 0
        /\ IF ~Active THEN Refused("SeekWithTag", SeekError)
           ELSE SeekTagDone("SeekWithTag", SeekWithTag(data, tag, key, sf), key, tag)

SeekDoubleWithTagAct(SFS) ==
    \E tag \in TagArgs, k \in NumKeys, sf \in SFS :
        /\ tag \in AllTags => tag \in data.tags
        /\ KeyUsed(tag, sf, k, 1)
        /\ tag \in {NoTag, InvalidTag} => sf = 0
        /\ IF ~Active THEN Refused("SeekDoubleWithTag", SeekError)
           ELSE SeekTagDone("SeekDoubleWithTag", SeekDoubleWithTag(data, tag, k, sf), k, tag)

DeleteAct == IF ~Active THEN Refused("Delete", 0) ELSE Done("Delete", Delete(data))

RecallAct == IF ~Active THEN Refused("Recall", 0) ELSE Done("Recall", Recall(data))

PackAct(FS) ==
    \E fail \in FailFlags(FS) :
        IF ~Active THEN Refused("Pack", 0) ELSE Done("Pack", Pack(data, fail))

AggDone(op, r, cbFail) ==
    /\ data' = r.st
    /\ ret' = [RetCb(op, r.err, r.acc.count, r.acc.list, r.acc.calls, cbFail)
                 EXCEPT !.scanned = r.acc.rounds]
    /\ UNCHANGED <<opened, obj, scans>>

CountDeletedAct(FS) ==
    \E F \in Plans(data, FS) :
        IF ~Active THEN Refused("CountDeleted", 0)
        ELSE AggDone("CountDeleted", CountDeleted(data, F), 0)

CountActiveAct(FS) ==
    \E F \in Plans(data, FS) :
        IF ~Active THEN Refused("CountActive", 0)
        ELSE AggDone("CountActive", CountActive(data, F), 0)

ListDeletedRecordsAct(FS) ==
    \E F \in Plans(data, FS) :
        IF ~Active THEN Refused("ListDeletedRecords", 0)
        ELSE AggDone("ListDeletedRecords", ListDeletedRecords(data, F), 0)

ForEachDeletedRecordAct(FS) ==
    \E F \in Plans(data, FS), cbFail \in 0..NumDeleted(data) :
        IF ~Active THEN Refused("ForEachDeletedRecord", 0)
        ELSE AggDone("ForEachDeletedRecord", ForEachDeletedRecord(data, F, cbFail),
                     cbFail)

RecallAllDeletedAct(FS) ==
    \E F \in Plans(data, FS) :
        IF ~Active THEN Refused("RecallAllDeleted", 0)
        ELSE AggDone("RecallAllDeleted", RecallAllDeleted(data, F), 0)

(* ---------------------------- specifications --------------------------- *)
\* Cursor, ordering and deletion lifecycle; the engine never fails.
\* What the caller gets: the result, the count, or whether there is a match.
RegexDone(op, r) ==
    /\ data' = r.st
    /\ ret' = [RetCb(op, r.err,
                     IF op = "RegexExists" THEN Len(r.res.matches) > 0
                     ELSE Len(r.res.matches),
                     IF op = "RegexSearch" THEN r.res.matches ELSE << >>, 0, 0)
                 EXCEPT !.scanned = r.res.scanned]
    /\ UNCHANGED <<opened, obj, scans>>

RegexSearchAct(FS, SFS) ==
    IF ~Active THEN Refused("RegexSearch", 0)
    ELSE \E c \in RegexCalls(data, RegexOptions, FS, SFS) :
            RegexDone("RegexSearch",
                      RegexSearch(data, c.fieldName, c.pattern, c.options, c.F, c.sf))

RegexCountAct(FS, SFS) ==
    IF ~Active THEN Refused("RegexCount", 0)
    ELSE \E c \in RegexCalls(data, CountOptions, FS, SFS) :
            RegexDone("RegexCount",
                      RegexCount(data, c.fieldName, c.pattern, c.options, c.F, c.sf))

RegexExistsAct(FS, SFS) ==
    IF ~Active THEN Refused("RegexExists", FALSE)
    ELSE \E c \in RegexCalls(data, CountOptions, FS, SFS) :
            RegexDone("RegexExists",
                      RegexExists(data, c.fieldName, c.pattern, c.options, c.F, c.sf))

ExprDone(op, r, cbFail) ==
    /\ data' = r.st
    /\ ret' = [RetCb(op, r.err, r.acc.count, r.acc.list, r.acc.calls, cbFail)
                 EXCEPT !.scanned = r.acc.scanned,
                        !.filter = r.filter.filter, !.frees = r.filter.frees]
    /\ UNCHANGED <<opened, obj, scans>>

SearchByExpressionAct(FS) ==
    IF ~Active THEN Refused("SearchByExpression", 0)
    ELSE \E expression \in Exprs, maxResults \in MaxResultsArgs, F \in Plans(data, FS) :
            LET r == SearchByExpression(data, expression, maxResults, F)
            IN  ExprDone("SearchByExpression",
                         IF r.err # NoErr THEN [r EXCEPT !.acc = NoAcc] ELSE r, 0)

CountByExpressionAct(FS) ==
    IF ~Active THEN Refused("CountByExpression", 0)
    ELSE \E expression \in Exprs, F \in Plans(data, FS) :
            LET r == CountByExpression(data, expression, F)
            IN  ExprDone("CountByExpression", [r EXCEPT !.acc.list = << >>], 0)

ForEachExpressionMatchAct(FS) ==
    IF ~Active THEN Refused("ForEachExpressionMatch", 0)
    ELSE \E expression \in Exprs, F \in Plans(data, FS) :
            \E cbFail \in 0..NumMatching(data, expression) :
                ExprDone("ForEachExpressionMatch",
                         ForEachExpressionMatch(data, expression, F, cbFail), cbFail)

OpenOutcomes == {OpenOk, OpenNoFile, OpenNoHeader, OpenCountMismatch, OpenNoFields}

\* val: whether the call produced its value (for Evaluate: the value).
ObjDone(op, err, val, key, o) ==
    /\ ret' = [Ret(op, err, IF val THEN 1 ELSE 0, << >>, 0) EXCEPT !.key = key]
    /\ obj' = o
    /\ UNCHANGED <<opened, data, scans>>

\* FieldByName / Field: the caller keeps the Field it is given (nil when
\* v.fields is nil).
FieldByNameAct ==
    IF ~obj.fields THEN ObjDone("FieldByName", NoErr, FALSE, << >>, obj)
    ELSE ObjDone("FieldByName", NoErr, TRUE, << >>,
                 [obj EXCEPT !.field = IF Active THEN "live" ELSE "stale"])

\* A typed read on the Field the caller holds; FT: the types that Field can have.
FieldReadAct(FT) ==
    /\ obj.field # "none"
    /\ \E ftype \in FT, reader \in Readers, convertible \in BOOLEAN,
          crash \in BOOLEAN :
          /\ crash => obj.field = "stale" /\ convertible
          /\ LET r == FieldRead(Active, data, obj.field, ftype, reader, convertible, crash)
             IN  ObjDone("FieldRead", r.err, r.val, <<ftype, reader>>, obj)

NewExprFilterAct ==
    \E expression \in Exprs :
        IF ~Active THEN Refused("NewExprFilter", 0)
        ELSE IF ~D4ExprParse(expression)
        THEN ObjDone("NewExprFilter", "failed to parse expression", FALSE, << >>, obj)
        ELSE ObjDone("NewExprFilter", NoErr, TRUE, << >>,
                     NewExprFilter(obj, expression))

FreeAct ==
    /\ obj.filter # "none"
    /\ ObjDone("Free", NoErr, TRUE, << >>, Free(obj))

EvaluateAct ==
    /\ obj.filter # "none"
    /\ \E guess \in BOOLEAN, crash \in BOOLEAN :
          /\ crash => obj.filter = "stale" /\ guess
          /\ LET r == Evaluate(Active, data, obj, guess, crash)
             IN  ObjDone("Evaluate", r.err, r.val, << >>, obj)

Running(r) == r.pc \notin {"idle", "done"}
NoneRunning == \A g \in Goroutines : ~Running(scans.run[g])

\* A goroutine calls CountDeleted or CountActive: the test for an open
\* handle, the first call of the scan.  The goroutines are alike: the one
\* that calls first is numbered 1.
ScanBeginAct ==
    \E g \in Goroutines, kind \in ScanKinds :
        /\ scans.run[g].pc = "idle"
        /\ g = 1 \/ scans.run[1].pc # "idle"
        /\ scans' =
             [run |-> [scans.run EXCEPT ![g] =
                         [IdleScan EXCEPT
                            !.kind = kind,
                            !.pc = IF Active THEN "Position" ELSE "done",
                            !.err = IF Active THEN NoErr ELSE NotOpen,
                            !.alone = IF Active
                                      THEN [count |-> AggregateScan(data, kind, NoFault, 0).acc.count,
                                            err |-> AggregateScan(data, kind, NoFault, 0).err]
                                      ELSE [count |-> 0, err |-> NotOpen]]],
              before |-> IF \A h \in Goroutines : scans.run[h].pc = "idle"
                         THEN [pos |-> Position(data), tag |-> SelectedTag(data)]
                         ELSE scans.before,
              overlap |-> scans.overlap \/ \E h \in Goroutines : Running(scans.run[h])]
        /\ UNCHANGED <<opened, data, ret, obj>>

\* The next call of a running scan; the last one returns to the caller.
ScanStepAct ==
    \E g \in Goroutines :
        /\ Running(scans.run[g])
        /\ data' = ScanStep(data, scans.run[g]).st
        /\ scans' = [scans EXCEPT !.run[g] = ScanStep(data, scans.run[g]).run]
        /\ ret' = IF ScanStep(data, scans.run[g]).run.pc = "done"
                  THEN Ret(scans.run[g].kind, scans.run[g].err,
                           IF scans.run[g].err # NoErr THEN 0 ELSE scans.run[g].count,
                           << >>, 0)
                  ELSE ret
        /\ UNCHANGED <<opened, obj>>

\* The callers have taken their results.
ScanCollectAct ==
    /\ NoneRunning
    /\ \E g \in Goroutines : scans.run[g].pc = "done"
    /\ scans' = NoScans
    /\ UNCHANGED <<opened, data, ret, obj>>

\* The calendar dates converted.
Years == (1..CycleYears) \cup {1582, 1600, 1900, 2000, 2024, 2100, 9600, 9999}
Dates == {dt \in Years \X (1..12) \X (1..31) : dt[3] <= DaysInMonth(dt[1], dt[2])}

\* A Date field holding the date dt is about to be read.
InitJulian ==
    /\ opened = FALSE /\ data = NoData /\ obj = NoObjects /\ scans = NoScans
    /\ \E dt \in Dates : ret = [Ret("date", NoErr, 0, << >>, 0) EXCEPT !.key = dt]

\* DateField.AsInt and JulianToYMD on its result: val is the Julian day
\* number, list the year, month and day it converts back to.
JulianToYMDAct ==
    /\ ret.op = "date"
    /\ ret' = [Ret("JulianToYMD", NoErr, date4long(ret.key[1], ret.key[2], ret.key[3]),
                   <<JulianToYMD(date4long(ret.key[1], ret.key[2], ret.key[3])).year,
                     JulianToYMD(date4long(ret.key[1], ret.key[2], ret.key[3])).month,
                     JulianToYMD(date4long(ret.key[1], ret.key[2], ret.key[3])).day>>, 0)
                 EXCEPT !.key = ret.key]
    /\ UNCHANGED <<opened, data, obj, scans>>

Next ==
    \/ OpenAct({OpenOk}, Tables)
    \/ CloseAct({FALSE})
    \/ GotoAct({NoFault})
    \/ NextAct({NoFault})
    \/ PreviousAct({NoFault})
    \/ SkipAct({NoFault})
    \/ FirstAct({NoFault})
    \/ LastAct({NoFault})
    \/ SelectTagAct
    \/ DeleteAct
    \/ RecallAct
    \/ PackAct({NoFault})
    \/ CountDeletedAct({NoFault})
    \/ CountActiveAct({NoFault})
    \/ ListDeletedRecordsAct({NoFault})
    \/ ForEachDeletedRecordAct({NoFault})
    \/ RecallAllDeletedAct({NoFault})

Spec == Init /\ [][Next]_vars

\* The aggregate scans when positioning calls of the engine may fail.
NextFault ==
    \/ OpenAct({OpenOk}, Tables)
    \/ FirstAct(Faults)
    \/ NextAct(Faults)
    \/ PreviousAct(Faults)
    \/ SelectTagAct
    \/ DeleteAct
    \/ PackAct(Faults)
    \/ CountDeletedAct(Faults)
    \/ CountActiveAct(Faults)
    \/ ListDeletedRecordsAct(Faults)
    \/ ForEachDeletedRecordAct(Faults)
    \/ RecallAllDeletedAct(Faults)

SpecFault == Init /\ [][NextFault]_vars

\* The seek protocol; a seek may end in any engine outcome.
NextSeek ==
    \/ OpenAct({OpenOk}, Tables)
    \/ FirstAct({NoFault})
    \/ NextAct({NoFault})
    \/ PreviousAct({NoFault})
    \/ SelectTagAct
    \/ SeekAct(SeekFaults)
    \/ SeekDoubleAct(SeekFaults)
    \/ SeekNextAct(SeekFaults)
    \/ SeekNextDoubleAct(SeekFaults)
    \/ SeekWithTagAct(SeekFaults)
    \/ SeekDoubleWithTagAct(SeekFaults)

SpecSeek == Init /\ [][NextSeek]_vars

\* The seek protocol with an engine that does not fail.
NextSeekOk ==
    \/ OpenAct({OpenOk}, Tables)
    \/ FirstAct({NoFault})
    \/ NextAct({NoFault})
    \/ SelectTagAct
    \/ SeekAct({0})
    \/ SeekDoubleAct({0})
    \/ SeekNextAct({0})
    \/ SeekNextDoubleAct({0})

SpecSeekOk == Init /\ [][NextSeekOk]_vars

\* The regular-expression searches; positioning calls and the seek may fail.
RegexSeekFaults == {0, r4locked}
RegexFaults == {F \in Faults : F.nav <= 2 /\ ~(F.rst /\ F.nav # 0)}

NextRegex ==
    \/ OpenAct({OpenOk}, Tables)
    \/ FirstAct({NoFault})
    \/ NextAct({NoFault})
    \/ PreviousAct({NoFault})
    \/ SelectTagAct
    \/ RegexSearchAct(RegexFaults, RegexSeekFaults)
    \/ RegexCountAct({NoFault}, {0})
    \/ RegexExistsAct({NoFault}, {0})

SpecRegex == Init /\ [][NextRegex]_vars

\* The expression searches and the two callback walks.
NextExpr ==
    \/ OpenAct({OpenOk}, Tables)
    \/ FirstAct({NoFault})
    \/ NextAct({NoFault})
    \/ PreviousAct({NoFault})
    \/ SelectTagAct
    \/ DeleteAct
    \/ SearchByExpressionAct({NoFault})
    \/ CountByExpressionAct({NoFault})
    \/ ForEachExpressionMatchAct({NoFault})
    \/ ForEachDeletedRecordAct({NoFault})

SpecExpr == Init /\ [][NextExpr]_vars

\* The life of a handle: opening (with its failures), closing (with a failing
\* d4close), and every operation called on a handle that is not open.
NextHandle ==
    \/ OpenAct(OpenOutcomes, Tables)
    \/ CloseAct(BOOLEAN)
    \/ FirstAct({NoFault})
    \/ NextAct({NoFault})
    \/ PreviousAct({NoFault})
    \/ ~Active /\ LastAct({NoFault})
    \/ ~Active /\ GotoAct({NoFault})
    \/ ~Active /\ SkipAct({NoFault})
    \/ ~Active /\ SelectTagAct
    \/ ~Active /\ DeleteAct
    \/ ~Active /\ RecallAct
    \/ ~Active /\ PackAct({NoFault})
    \/ ~Active /\ CountDeletedAct({NoFault})
    \/ ~Active /\ CountActiveAct({NoFault})
    \/ ~Active /\ ListDeletedRecordsAct({NoFault})
    \/ ~Active /\ ForEachDeletedRecordAct({NoFault})
    \/ ~Active /\ RecallAllDeletedAct({NoFault})
    \/ ~Active /\ SeekAct({0})
    \/ ~Active /\ SeekDoubleAct({0})
    \/ ~Active /\ SeekNextAct({0})
    \/ ~Active /\ SeekNextDoubleAct({0})
    \/ ~Active /\ SeekWithTagAct({0})
    \/ ~Active /\ SeekDoubleWithTagAct({0})
    \/ ~Active /\ RegexSearchAct({NoFault}, {0})
    \/ ~Active /\ RegexCountAct({NoFault}, {0})
    \/ ~Active /\ RegexExistsAct({NoFault}, {0})
    \/ ~Active /\ SearchByExpressionAct({NoFault})
    \/ ~Active /\ CountByExpressionAct({NoFault})
    \/ ~Active /\ ForEachExpressionMatchAct({NoFault})

SpecHandle == Init /\ [][NextHandle]_vars

\* The objects handed to the caller (a Field, an ExprFilter) across Close
\* (with a failing d4close) and a later Open.
OneRowTables == {t \in Tables : Len(t) <= 1}
NextObjects ==
    \/ OpenAct({OpenOk}, OneRowTables)
    \/ CloseAct(BOOLEAN)
    \/ FirstAct({NoFault})
    \/ NextAct({NoFault})
    \/ PreviousAct({NoFault})
    \/ FieldByNameAct
    \/ FieldReadAct({"character"})
    \/ NewExprFilterAct
    \/ FreeAct
    \/ EvaluateAct

SpecObjects == Init /\ [][NextObjects]_vars

\* Typed reads of every field type at every cursor position and on a closed
\* table.
NextFields ==
    \/ OpenAct({OpenOk}, OneRowTables)
    \/ CloseAct({FALSE})
    \/ FirstAct({NoFault})
    \/ NextAct({NoFault})
    \/ PreviousAct({NoFault})
    \/ FieldByNameAct
    \/ FieldReadAct(FieldTypes)

SpecFields == Init /\ [][NextFields]_vars

\* Two goroutines running CountDeleted and CountActive on one handle; the
\* other calls are made while no scan is running.
AllIdle == \A g \in Goroutines : scans.run[g].pc = "idle"
\* The table the goroutines scan.
ScanTables == {<<Pad(<<"A">>)>>}
NextConc ==
    \/ AllIdle /\ OpenAct({OpenOk}, ScanTables)
    \/ AllIdle /\ FirstAct({NoFault})
    \/ AllIdle /\ NextAct({NoFault})
    \/ AllIdle /\ SelectTagAct
    \/ AllIdle /\ DeleteAct
    \/ ScanBeginAct
    \/ ScanStepAct
    \/ ScanCollectAct

SpecConc == Init /\ [][NextConc]_vars

\* The walks of the three families, with engine failures in their
\* positioning calls and callbacks that may fail.
\* No failure, or a failure of the first Next of the loop.
WalkFaults == {F \in Faults : ~F.rst /\ F.nav \in {0, 2}}
\* The tables walked: of every length, the text of the last row varies.
WalkTables == {t \in Tables : \A i \in 1..(Len(t) - 1) : t[i] = Pad(<<"A">>)}
NextWalks ==
    \/ OpenAct({OpenOk}, WalkTables)
    \/ FirstAct({NoFault})
    \/ SelectTagAct
    \/ DeleteAct
    \/ CountDeletedAct(WalkFaults)
    \/ CountActiveAct(WalkFaults)
    \/ ListDeletedRecordsAct(WalkFaults)
    \/ ForEachDeletedRecordAct(WalkFaults)
    \/ RecallAllDeletedAct(WalkFaults)
    \/ RegexSearchAct(WalkFaults, RegexSeekFaults)
    \/ SearchByExpressionAct(WalkFaults)
    \/ CountByExpressionAct(WalkFaults)
    \/ ForEachExpressionMatchAct(WalkFaults)

SpecWalks == Init /\ [][NextWalks]_vars

\* The expression searches with failing positioning calls and callbacks,
\* and a filter the caller creates, evaluates and frees.
FilterFaults == {F \in Faults : ~F.rst /\ F.nav \in {0, 1, 2}}
NextFilters ==
    \/ OpenAct({OpenOk}, WalkTables)
    \/ FirstAct({NoFault})
    \/ SearchByExpressionAct(FilterFaults)
    \/ CountByExpressionAct(FilterFaults)
    \/ ForEachExpressionMatchAct(FilterFaults)
    \/ NewExprFilterAct
    \/ FreeAct
    \/ EvaluateAct

SpecFilters == Init /\ [][NextFilters]_vars

\* Dates converted to Julian day numbers and back.
NextJulian == JulianToYMDAct
SpecJulian == InitJulian /\ [][NextJulian]_vars

TypeOK == /\ opened \in BOOLEAN
          /\ data.recNum \in (0 - 1)..(MaxRows + 1)
          /\ Len(data.rows) <= MaxRows
          /\ data.tagSelected \in data.tags \cup {NoTag}

(* ------------------------------ properties ----------------------------- *)
\* The cursor as the caller sees it: BOF, EOF, or the row it is on.
CursorState(e) ==
    [bof |-> BOF(e), eof |-> EOF(e), row |-> IF BOF(e) \/ EOF(e) THEN 0 ELSE D4RecNo(e)]

Flags(e) == [i \in 1..D4RecCount(e) |-> e.rows[i].del]

\* Deleted() as the caller of the handle sees it.
DeletedNow == IF ~Active THEN FALSE ELSE Deleted(data)
\* BOF(), EOF() and Position() as the caller of the handle sees them.
BOFNow == IF ~Active THEN FALSE ELSE BOF(data)
EOFNow == IF ~Active THEN FALSE ELSE EOF(data)
PositionNow == IF ~Active THEN 0 - 1 ELSE Position(data)

SetOf(seq) == {seq[i] : i \in 1..Len(seq)}

\* C1: on an open table with at least one row, for every pattern, RegexSearch
\* on the character column with UseIndex=true returns the same error and the
\* same set of matches (row numbers and matched spans) as with UseIndex=false.
C1_IndexedEqualsFullScan ==
    (opened /\ D4RecCount(data) >= 1) =>
        \A pattern \in Patterns :
            LET indexed == RegexSearch(data, FieldNAME, pattern,
                                       Options(FALSE, 0, TRUE), NoFault, 0)
                full    == RegexSearch(data, FieldNAME, pattern,
                                       Options(FALSE, 0, FALSE), NoFault, 0)
            IN  /\ indexed.err = full.err
                /\ SetOf(indexed.res.matches) = SetOf(full.res.matches)

\* C2: an aggregate scan on an open table returns with the cursor in the
\* state (row n, BOF or EOF) it had before the call.
C2_ScanRestoresPosition ==
    [][(opened /\ ret'.op \in AggOps
           /\ (BOF(data) \/ EOF(data) \/ Position(data) \in 1..D4RecCount(data)))
         => CursorState(data') = CursorState(data)]_vars

\* C3: an aggregate scan on an open table returns with the ordering that was
\* selected before the call, on every exit (normal, error, callback error).
C3_ScanRestoresOrdering ==
    [][(opened /\ ret'.op \in AggOps) => SelectedTag(data') = SelectedTag(data)]_vars

C3_Witness ==
    /\ ret.op = "ForEachDeletedRecord"
    /\ ret.err = "callback error"
    /\ SelectedTag(data) = TagNAME

\* C4: SeekWithTag and SeekDoubleWithTag with a valid tag leave the selected
\* ordering as it was before the call, whatever the seek outcome.
C4_SeekWithTagRestoresOrdering ==
    [][(opened /\ ret'.op \in {"SeekWithTag", "SeekDoubleWithTag"} /\ ret'.err = NoErr)
         => SelectedTag(data') = SelectedTag(data)]_vars

C4_Witness ==
    /\ ret.op = "SeekWithTag"
    /\ ret.err = NoErr
    /\ ret.val = SeekLocked
    /\ SelectedTag(data) = NoTag

\* C5 as stated: on an open table, after a navigation, scan or Pack call, the
\* cursor is in exactly one of BOF, EOF, positioned at an existing row.
CursorOps == {"First", "Last", "Next", "Previous", "Skip", "Goto", "Pack"} \cup AggOps

ExprSearchOps == {"SearchByExpression", "CountByExpression", "ForEachExpressionMatch"}

C6_SearchRestoresPosition ==
    [][(opened /\ ret'.op \in ExprSearchOps
           /\ (BOF(data) \/ EOF(data) \/ Position(data) \in 1..D4RecCount(data)))
         => CursorState(data') = CursorState(data)]_vars

\* C7: when the callback of ForEachDeletedRecord or ForEachExpressionMatch
\* returns an error at some call, that call is the last one and the
\* operation returns the callback's error itself.
C7_CallbackErrorStopsScan ==
    (ret.op \in {"ForEachDeletedRecord", "ForEachExpressionMatch"}
        /\ ret.arg > 0 /\ ret.calls >= ret.arg)
      => (ret.calls = ret.arg /\ ret.err = "callback error")

C7_Witness ==
    /\ ret.op = "ForEachExpressionMatch"
    /\ ret.err = "callback error"
    /\ ret.calls = 1
    /\ ret.list = <<1>>
    /\ D4RecCount(data) = 2
    /\ \A i \in 1..2 : data.rows[i].del /\ data.rows[i].val = Pad(<<"A", "B">>)

\* C8: with the cursor on a row, Deleted() is true right after Delete() and
\* false right after Recall().
C8_DeleteThenDeleted ==
    [][(opened /\ Position(data) > 0) =>
          /\ ret'.op = "Delete" => (ret'.err = NoErr /\ Deleted(data'))
          /\ ret'.op = "Recall" => (ret'.err = NoErr /\ ~Deleted(data'))]_vars

C8_Witness ==
    /\ ret.op = "Delete"
    /\ ret.err = NoErr
    /\ DeletedNow

\* C9: at BOF or EOF, or on a closed table, Deleted() is false, and Delete()
\* and Recall() return an error and change no deletion flag.
C9_NotPositionedDeletion ==
    /\ []((~opened \/ BOF(data) \/ EOF(data)) => ~DeletedNow)
    /\ [][((~opened \/ BOF(data) \/ EOF(data)) /\ ret'.op \in {"Delete", "Recall"})
            => (ret'.err # NoErr /\ Flags(data') = Flags(data))]_vars

C9_Witness ==
    /\ opened
    /\ ret.op = "Delete"
    /\ ret.err = "no current record to delete"
    /\ BOF(data)
    /\ D4RecCount(data) >= 1

\* C10: on an open table CountActive() + CountDeleted() is the number of rows.
C10_CountsAddUp ==
    opened => CountActive(data, NoFault).acc.count + CountDeleted(data, NoFault).acc.count
                = D4RecCount(data)

C10_Witness ==
    /\ opened
    /\ ret.op = "CountActive"
    /\ ret.val >= 1
    /\ NumDeleted(data) >= 1

\* The record numbers of the flagged rows, ascending.
FlaggedRows(e) == SelectSeq([i \in 1..D4RecCount(e) |-> i], LAMBDA i : e.rows[i].del)

\* C11: ListDeletedRecords returns the record numbers of the flagged rows,
\* each once and ascending, and CountDeleted returns how many there are,
\* whichever ordering is selected.
C11_ListIsFlaggedRows ==
    opened =>
        /\ ret.op = "ListDeletedRecords" => ret.list = FlaggedRows(data)
        /\ ret.op = "CountDeleted" => ret.val = Len(FlaggedRows(data))

C11_Witness ==
    /\ opened
    /\ ret.op = "ListDeletedRecords"
    /\ ret.err = NoErr
    /\ SelectedTag(data) = TagNAME
    /\ data.index = <<2, 1>>
    /\ ret.list = <<1, 2>>

\* The rows of the table by their identity, in file order.
RowIds(rows) == [i \in 1..Len(rows) |-> rows[i].id]

\* C12: a Pack() without error removes the rows that were flagged and keeps
\* the others, and a CountDeleted() right after it returns 0 and no error.
C12_PackThenCountDeleted ==
    [][(opened /\ ret'.op = "Pack" /\ ret'.err = NoErr) =>
          /\ RowIds(data'.rows) = RowIds(SelectSeq(data.rows, LAMBDA r : ~r.del))
          /\ CountDeleted(data', NoFault).acc.count = 0
          /\ CountDeleted(data', NoFault).err = NoErr]_vars

\* C13: after RecallAllDeleted() returns without error no row is flagged,
\* CountDeleted() returns 0, and the number returned is the number of rows
\* that were flagged before the call.
C13_RecallAllClearsFlags ==
    [][(opened /\ ret'.op = "RecallAllDeleted" /\ ret'.err = NoErr) =>
          /\ FlaggedRows(data') = << >>
          /\ CountDeleted(data', NoFault).acc.count = 0
          /\ ret'.val = Len(FlaggedRows(data))]_vars

C13_Witness == opened /\ ret.op = "RecallAllDeleted" /\ ret.err = NoErr
               /\ ret.val = 2 /\ FlaggedRows(data) = << >>

\* The text a row holds in the NAME column.
NameOf(e, i) == TrimRight(e.rows[i].val)

\* C14: under a selected index, Seek(key) for a key that some row holds
\* returns Success with the cursor on a row holding that key, and Seek(key)
\* for a key greater than every key of the index returns EOF with the cursor
\* at EOF (Seek under the NAME tag, SeekDouble under the RECID tag).
C14_SeekClassification ==
    /\ (opened /\ ret.op = "Seek" /\ SelectedTag(data) = TagNAME) =>
          /\ (\E i \in 1..D4RecCount(data) : NameOf(data, i) = ret.key) =>
                /\ ret.val = SeekSuccess
                /\ Position(data) \in 1..D4RecCount(data)
                /\ NameOf(data, Position(data)) = ret.key
          /\ (\A i \in 1..D4RecCount(data) : StrLess(data.rows[i].val, ret.key)) =>
                ret.val = SeekEOF /\ EOF(data)
    /\ (opened /\ ret.op = "SeekDouble" /\ SelectedTag(data) = TagRECID) =>
          /\ (\E i \in 1..D4RecCount(data) : data.rows[i].id = ret.key) =>
                /\ ret.val = SeekSuccess
                /\ Position(data) \in 1..D4RecCount(data)
                /\ data.rows[Position(data)].id = ret.key
          /\ (\A i \in 1..D4RecCount(data) : data.rows[i].id < ret.key) =>
                ret.val = SeekEOF /\ EOF(data)

C14_Witness == /\ opened /\ ret.op = "Seek" /\ ret.val = SeekSuccess
               /\ ret.key = <<"A">> /\ data.index = <<2, 1>> /\ Position(data) = 2

\* The other case of C14: a key beyond the last key of a non-empty index.
C14_WitnessEof == /\ opened /\ ret.op = "Seek" /\ ret.val = SeekEOF /\ EOF(data)
                  /\ ret.key = <<"B">> /\ D4RecCount(data) = 2

\* The eight classified outcomes of a seek.
SeekResults == {SeekSuccess, SeekAfter, SeekEOF, SeekEntry, SeekLocked, SeekUnique,
                SeekNoTag, SeekError}

\* C15: every Seek, SeekDouble, SeekNext and SeekNextDouble on an open table
\* returns one of the eight classified outcomes, whatever code the engine
\* returns.
C15_SeekOutcomeClassified ==
    (opened /\ ret.op \in {"Seek", "SeekDouble", "SeekNext", "SeekNextDouble"}) =>
        ret.val \in SeekResults

\* C16: a Seek (or SeekDouble) on an open table while no index is selected
\* returns the NoTag outcome and no error.
C16_SeekWithoutIndexIsNoTag ==
    (opened /\ ret.op \in {"Seek", "SeekDouble"} /\ SelectedTag(data) = NoTag) =>
        ret.val = SeekNoTag /\ ret.err = NoErr

C16_Witness == /\ opened /\ ret.op = "Seek" /\ ret.val = SeekNoTag
               /\ SelectedTag(data) = NoTag /\ TagNAME \in data.tags
               /\ D4RecCount(data) = 2 /\ Position(data) = 1

\* C17: SeekWithTag and SeekDoubleWithTag called with a nil or an invalid tag
\* return SeekError with an error, and the cursor and the selected ordering
\* are as before the call (no seek is made).
C17_BadTagRefused ==
    [][(opened /\ ret'.op \in {"SeekWithTag", "SeekDoubleWithTag"}
               /\ ret'.tag \in {NoTag, InvalidTag}) =>
          /\ ret'.val = SeekError
          /\ ret'.err # NoErr
          /\ data' = data]_vars

C17_Witness == /\ opened /\ ret.op = "SeekWithTag" /\ ret.tag = InvalidTag
               /\ ret.err = "invalid tag" /\ ret.val = SeekError
               /\ SelectedTag(data) = TagNAME /\ Position(data) = 2

\* C18: after SelectTag(t) with a valid tag t, SelectedTag() is t; after
\* SelectTag(nil), SelectedTag() is nil; in both cases Position() is what it
\* was before the call.
C18_SelectTagKeepsPosition ==
    [][(opened /\ ret'.op = "SelectTag" /\ ret'.tag # InvalidTag) =>
          /\ ret'.err = NoErr
          /\ SelectedTag(data') = ret'.tag
          /\ Position(data') = Position(data)]_vars

C18_Witness == /\ opened /\ ret.op = "SelectTag" /\ ret.tag = NoTag /\ ret.err = NoErr
               /\ SelectedTag(data) = NoTag /\ data.index = <<2, 1>>
               /\ Position(data) = 2

\* Record numbers in strictly ascending order.
Ascending(list) == \A i \in 1..(Len(list) - 1) : list[i] < list[i + 1]

\* C19: SearchByExpression and ForEachExpressionMatch report their matches
\* in ascending physical row number, whichever ordering is selected (the
\* walk is in physical order).
C19_ExprMatchesInPhysicalOrder ==
    (opened /\ ret.op \in {"SearchByExpression", "ForEachExpressionMatch"}) =>
        Ascending(ret.list)

\* The record numbers of the matches of a regex search result.
RowsOf(matches) == [i \in 1..Len(matches) |-> matches[i].rec]

IsPrefixOf(a, b) == Len(a) <= Len(b) /\ SubSeq(b, 1, Len(a)) = a

\* The rows of the table whose text the pattern matches.
MatchingRows(e, compiled) ==
    {i \in 1..D4RecCount(e) :
        Len(FindAllStringIndex(compiled, TrimSpace(e.rows[i].val))) > 0}

\* The rows of the table for which the expression is true.
ExprRows(e, expression) ==
    {i \in 1..D4RecCount(e) : D4ExprTrue([e EXCEPT !.recNum = i], expression)}

\* A result limited to m matches: at most m rows, the first of the unlimited
\* walk, and nothing is scanned after the m-th match (stated for a walk in
\* physical order, where the rows scanned are 1..scanned).
LimitedWalk(physical, rows, scanned, allRows, m) ==
    /\ Len(rows) <= m
    /\ IsPrefixOf(rows, allRows)
    /\ (physical /\ Len(rows) = m) => scanned = rows[m]

\* C20: with MaxResults = m > 0, RegexSearch and SearchByExpression return
\* at most m matches, the first m matching rows of the walk, and scan no row
\* after the m-th match; with MaxResults = 0 they return every matching row;
\* TotalMatched is the number of matches.
C20_MaxResults ==
    opened =>
      /\ \A pattern \in Patterns, u \in BOOLEAN :
            LET all == RegexSearch(data, FieldNAME, pattern, Options(FALSE, 0, u),
                                   NoFault, 0)
            IN  all.err = NoErr =>
                  /\ SetOf(RowsOf(all.res.matches))
                        = MatchingRows(data, Compile(pattern, FALSE))
                  /\ \A m \in MaxResultsArgs \ {0} :
                        LET lim == RegexSearch(data, FieldNAME, pattern,
                                               Options(FALSE, m, u), NoFault, 0)
                        IN  /\ lim.err = NoErr
                            /\ LimitedWalk(SelectedTag(data) = NoTag /\ ~u,
                                           RowsOf(lim.res.matches), lim.res.scanned,
                                           RowsOf(all.res.matches), m)
      /\ \A expression \in Exprs :
            LET all == SearchByExpression(data, expression, 0, NoFault)
            IN  all.err = NoErr =>
                  /\ SetOf(all.acc.list) = ExprRows(data, expression)
                  /\ all.acc.count = Len(all.acc.list)
                  /\ \A m \in MaxResultsArgs \ {0} :
                        LET lim == SearchByExpression(data, expression, m, NoFault)
                        IN  /\ lim.err = NoErr
                            /\ lim.acc.count = Len(lim.acc.list)
                            /\ LimitedWalk(SelectedTag(data) = NoTag,
                                           lim.acc.list, lim.acc.scanned,
                                           all.acc.list, m)

\* What RegexCount returns for the outcome r of its search (0 with an error),
\* and what RegexExists returns for the outcome of its own.
CountValue(r) == IF r.err # NoErr THEN 0 ELSE Len(r.res.matches)
ExistsValue(r) == IF r.err # NoErr THEN FALSE ELSE Len(r.res.matches) > 0

\* C21: RegexCount(field, pattern, nil) is the TotalMatched of
\* RegexSearch(field, pattern, nil), and RegexExists(field, pattern, opts) is
\* true exactly when RegexCount(field, pattern, opts) is greater than 0.
C21_CountAndExistsAgree ==
    opened =>
      \A pattern \in Patterns :
        /\ RegexSearch(data, FieldNAME, pattern, NilOptions, NoFault, 0).err = NoErr =>
              CountValue(RegexCount(data, FieldNAME, pattern, NilOptions, NoFault, 0))
                = Len(RegexSearch(data, FieldNAME, pattern, NilOptions, NoFault, 0).res.matches)
        /\ \A opts \in CountOptions :
              ExistsValue(RegexExists(data, FieldNAME, pattern, opts, NoFault, 0))
                <=> CountValue(RegexCount(data, FieldNAME, pattern, opts, NoFault, 0)) > 0

\* C22: for the same expression and table state, CountByExpression returns
\* the number of matches SearchByExpression returns with MaxResults = 0, and
\* ForEachExpressionMatch (with a callback that returns nil) calls its
\* callback once for each of those rows, in the same order.
C22_ExprVariantsAgree ==
    opened =>
      \A expression \in Exprs :
        LET found == SearchByExpression(data, expression, 0, NoFault).acc.list
        IN  SearchByExpression(data, expression, 0, NoFault).err = NoErr =>
              /\ CountByExpression(data, expression, NoFault).err = NoErr
              /\ CountByExpression(data, expression, NoFault).acc.count = Len(found)
              /\ ForEachExpressionMatch(data, expression, NoFault, 0).err = NoErr
              /\ ForEachExpressionMatch(data, expression, NoFault, 0).acc.calls = Len(found)
              /\ ForEachExpressionMatch(data, expression, NoFault, 0).acc.list = found

C22_Witness == /\ opened /\ ret.op = "CountByExpression" /\ ret.err = NoErr
               /\ ret.val = 2 /\ SelectedTag(data) = TagNAME /\ data.index = <<2, 1>>
               /\ SearchByExpression(data, ExprTrue, 0, NoFault).acc.list = <<2, 1>>

\* A call of RegexSearch that is refused for its arguments: an error, no
\* result, and the engine state (cursor, flags, selected ordering) untouched.
RefusedSearch(e, r) == r.err # NoErr /\ r.res = NoResult /\ r.st = e

\* C23: RegexSearch with an unknown field, a field that is not a character
\* field, or a pattern that does not compile returns an error and no result
\* and leaves the cursor and the selected ordering alone; an expression
\* search whose expression does not compile returns an error and leaves the
\* cursor alone.
C23_BadArgumentsRefused ==
    opened =>
      /\ \A fieldName \in FieldArgs \ CharacterFields, pattern \in Patterns,
            options \in RegexOptions :
            RefusedSearch(data, RegexSearch(data, fieldName, pattern, options, NoFault, 0))
      /\ \A pattern \in {p \in Patterns : ~CompileOk(p)}, options \in RegexOptions :
            RefusedSearch(data, RegexSearch(data, FieldNAME, pattern, options, NoFault, 0))
      /\ \A m \in MaxResultsArgs :
            /\ SearchByExpression(data, ExprBad, m, NoFault).err # NoErr
            /\ SearchByExpression(data, ExprBad, m, NoFault).st = data
      /\ CountByExpression(data, ExprBad, NoFault).err # NoErr
      /\ CountByExpression(data, ExprBad, NoFault).st = data
      /\ ForEachExpressionMatch(data, ExprBad, NoFault, 0).err # NoErr
      /\ ForEachExpressionMatch(data, ExprBad, NoFault, 0).st = data

C23_Witness == /\ opened /\ ret.op = "RegexSearch" /\ ret.err = "invalid regex pattern"
               /\ ret.list = << >> /\ SelectedTag(data) = TagNAME /\ Position(data) = 2

NavigationOps == {"Goto", "Next", "Previous", "Skip", "First", "Last"}
SeekOps == {"Seek", "SeekDouble", "SeekNext", "SeekNextDouble", "SeekWithTag",
            "SeekDoubleWithTag"}
DeletionOps == {"Delete", "Recall", "Pack", "RecallAllDeleted"}
AggregateOps == {"CountDeleted", "CountActive", "ListDeletedRecords",
                 "ForEachDeletedRecord"}
SearchOps == {"RegexSearch", "RegexCount", "RegexExists", "SearchByExpression",
              "CountByExpression", "ForEachExpressionMatch"}
TableOps == NavigationOps \cup SeekOps \cup DeletionOps \cup AggregateOps \cup SearchOps

\* C24: on a handle that is not open (never opened, or closed), every
\* navigation call, every seek, every deletion mutation, every aggregate scan
\* and every search returns an error (the seeks with SeekError), BOF() and
\* EOF() are false, and the handle stays not open.
C24_NotOpenRefuses ==
    [][~opened /\ ret'.op \in TableOps
         => /\ ret'.err # NoErr
            /\ ret'.op \in SeekOps => ret'.val = SeekError
            /\ ~BOFNow /\ ~EOFNow
            /\ ~opened' /\ ~BOFNow' /\ ~EOFNow']_vars

\* A seek on a handle closed by a Close during which the engine failed.
C24_Witness == /\ ~opened /\ obj.codeBase /\ ret.op = "SeekWithTag"
               /\ ret.val = SeekError /\ ret.err = NotOpen

\* An Open of a readable file that succeeds.
OpenSucceeds == /\ OpenAct({OpenOk}, Tables)
                /\ ret'.err = NoErr /\ opened' /\ obj'.header /\ obj'.fields

OpenCloseStep ==
    /\ (opened /\ ret'.op = "Open")
          => (ret'.err # NoErr /\ opened' /\ data' = data /\ obj' = obj)
    /\ (~opened /\ ret'.op = "Close")
          => (ret'.err # NoErr /\ ~opened' /\ data' = data /\ obj' = obj)
    /\ (opened /\ ret'.op = "Close" /\ ret'.err = NoErr) => ~opened'

\* C25: over any sequence of Open and Close calls, Open on an open handle
\* returns an error and leaves the handle open on the original table; Close
\* on a handle that is not open returns an error and leaves it not open;
\* after a successful Close Active() is false and a later Open succeeds.
C25_OpenCloseDiscipline ==
    /\ [][OpenCloseStep]_vars
    /\ [](ret.op = "Close" /\ ret.err = NoErr => ~Active /\ ENABLED OpenSucceeds)

\* Open called on a handle positioned on a row of the table it has open.
C25_Witness == /\ opened /\ ret.op = "Open" /\ ret.err = "database already open"
               /\ Position(data) = 2

\* A second Close after a successful one.
C25_WitnessClose == ~opened /\ ret.op = "Close" /\ ret.err = NotOpen /\ obj = NoObjects

Cleared(o) == ~o.codeBase /\ ~o.header /\ ~o.fields

FailedOpenStep ==
    (~opened /\ ret'.op = "Open" /\ ret'.err # NoErr) => (~opened' /\ Cleared(obj'))

\* C26: whenever Open returns an error (the file cannot be opened, the header
\* cannot be read, the header's record count differs from the engine's, or
\* there are no fields), the handle is not active afterwards and its engine
\* handles, header and field definitions are cleared.
C26_FailedOpenLeavesClosed == [][FailedOpenStep]_vars

ReturnsError(r) == r.err \notin {NoErr, Crash}

StaleObjectStep ==
    /\ (obj.field = "stale" /\ ret'.op = "FieldRead") => ReturnsError(ret')
    /\ (obj.filter = "stale" /\ ret'.op = "Evaluate") => ReturnsError(ret')

\* C27: after Close on an open handle every derived object is invalid:
\* FieldDefs(), Fields() and the header are cleared, every typed read on a
\* Field obtained before the close returns an error, and Evaluate on an
\* ExprFilter created before the close returns an error; this holds also
\* when the engine reports a failure while closing, and after the handle is
\* opened again.
C27_CloseInvalidates ==
    /\ [](ret.op = "Close" /\ ret.err # NotOpen => ~obj.header /\ ~obj.fields)
    /\ [][StaleObjectStep]_vars

\* The three ways the statement fails, one at a time.
C27_ClearedAfterClose == ret.op = "Close" /\ ret.err # NotOpen => ~obj.header /\ ~obj.fields
C27_StaleEvaluate ==
    [][(obj.filter = "stale" /\ ret'.op = "Evaluate") => ReturnsError(ret')]_vars
C27_StaleFieldRead ==
    [][(obj.field = "stale" /\ ret'.op = "FieldRead") => ReturnsError(ret')]_vars
\* What does hold: while the handle is not open, a typed read on a Field
\* returns the not-open error.
C27_ClosedFieldRead ==
    [][(~opened /\ ret'.op = "FieldRead" /\ ~Unsupported(ret'.key[1], ret'.key[2]))
          => ret'.err = NotOpen]_vars

\* C28 as stated: Position() returns -1 exactly when the table is not open
\* or the cursor is at BOF or EOF, otherwise the 1-based physical number of
\* the current row.
C28_PositionExactly ==
    /\ PositionNow = 0 - 1 <=> (~Active \/ BOFNow \/ EOFNow)
    /\ PositionNow # 0 - 1 => PositionNow \in 1..D4RecCount(data)

\* Open, neither flag set, and no current row.
Unpositioned == Active /\ ~BOFNow /\ ~EOFNow /\ PositionNow = 0 - 1

PositionStep ==
    /\ (Unpositioned' /\ ~Unpositioned) => ret'.op \in {"Open", "Pack"}
    /\ (ret'.op \in NavigationOps /\ ret'.err = NoErr) => ~Unpositioned'

\* C28 amended: Position() returns -1 when the table is not open, when the
\* cursor is at BOF or EOF, and when no positioning call has succeeded since
\* Open or Pack; otherwise it returns the 1-based physical number of the
\* current row, between 1 and the row count.
C28_PositionOrUnpositioned ==
    /\ []((~Active \/ BOFNow \/ EOFNow) => PositionNow = 0 - 1)
    /\ [](PositionNow # 0 - 1 =>
            /\ PositionNow \in 1..D4RecCount(data)
            /\ PositionNow = D4RecNo(data))
    /\ [][PositionStep]_vars

\* After Pack on a table that keeps a row: open, no flag, Position() = -1.
C28_Witness ==
    /\ opened /\ ret.op = "Pack" /\ ret.err = NoErr /\ D4RecCount(data) >= 1
    /\ ~BOFNow /\ ~EOFNow /\ PositionNow = 0 - 1

C28_WitnessRow ==
    /\ opened /\ ret.op = "Last" /\ SelectedTag(data) = TagNAME
    /\ PositionNow = 1 /\ D4RecCount(data) = 2

NonPositive == {0 - 1, 0}

\* C29: Goto(n) with n <= 0 returns an error without asking the engine to
\* move (cursor, BOF/EOF flags and selected ordering are unchanged, whether
\* or not the engine would have failed); Goto(n) with 1 <= n <= rowCount
\* positions at physical row n whichever ordering is selected.
C29_GotoPhysical ==
    opened =>
        /\ \A n \in NonPositive, fail \in BOOLEAN :
              Goto(data, n, fail) = [st |-> data, err |-> "invalid record index"]
        /\ \A n \in 1..D4RecCount(data) :
              /\ Goto(data, n, FALSE).err = NoErr
              /\ Goto(data, n, FALSE).st =
                    [data EXCEPT !.recNum = n, !.bofFlag = FALSE, !.eofFlag = FALSE]
              /\ Position(Goto(data, n, FALSE).st) = n

\* Goto(2) under the NAME ordering of a table whose first row in key order
\* is physical row 2.
C29_Witness ==
    /\ opened /\ ret.op = "Goto" /\ ret.err = NoErr /\ SelectedTag(data) = TagNAME
    /\ Position(data) = 2 /\ RecAt(data, 1) = 2

\* C30: every typed reader of every field type (Value, AsString, AsInt,
\* AsFloat, AsBool, AsTime, IsNull) first checks the cursor: at BOF or EOF it
\* returns a not-positioned error and on a closed table a not-open error,
\* before it produces any conversion result or conversion error.
C30_ReadersCheckCursorFirst ==
    (ret.op = "FieldRead" /\ checkActive(Active, data) # NoErr)
        => ret.err = checkActive(Active, data)

\* What holds: the readers that do more than return a conversion error check
\* the cursor first.
C30_SupportedReadersCheckCursorFirst ==
    (/\ ret.op = "FieldRead"
     /\ ~Unsupported(ret.key[1], ret.key[2])
     /\ checkActive(Active, data) # NoErr)
        => ret.err = checkActive(Active, data)

\* The fault plans in which a call of Next inside the walk fails with rows
\* still to visit.
MidScanFaults(e) == {F \in Faults : F.nav \in 2..D4RecCount(e) /\ ~F.rst}

\* C31: when a navigation step fails in the middle of an aggregate scan or a
\* search walk for a reason other than reaching EOF, the operation returns
\* an error, not a count or result set over the rows visited so far.
C31_NavFaultIsError ==
    opened => \A F \in MidScanFaults(data) :
        /\ CountDeleted(data, F).err # NoErr
        /\ CountActive(data, F).err # NoErr
        /\ SearchByExpression(data, ExprTrue, 0, F).err # NoErr
        /\ RegexSearch(data, FieldNAME, <<"B">>, Options(FALSE, 0, FALSE), F, 0).err # NoErr

\* What holds: a failure of the first positioning call of the walk is
\* returned as an error.
C31_FirstFaultIsError ==
    (opened /\ D4RecCount(data) >= 1) =>
        /\ CountDeleted(data, [nav |-> 1, rst |-> FALSE]).err # NoErr
        /\ SearchByExpression(data, ExprTrue, 0, [nav |-> 1, rst |-> FALSE]).err # NoErr
        /\ RegexSearch(data, FieldNAME, <<"B">>, Options(FALSE, 0, FALSE),
                       [nav |-> 1, rst |-> FALSE], 0).err # NoErr

AllDone == \A g \in Goroutines : scans.run[g].pc = "done"
AsAlone(r) == r.err = r.alone.err /\ (r.err = NoErr => r.count = r.alone.count)
ScansUndisturbed ==
    /\ \A g \in Goroutines : AsAlone(scans.run[g])
    /\ PositionNow = scans.before.pos
    /\ SelectedTag(data) = scans.before.tag

RECURSIVE Stepped(_, _)
Stepped(e, k) ==
    IF k > 0 THEN Stepped(Next_(e, FALSE).st, k - 1)
    ELSE IF k < 0 THEN Stepped(Previous(e, FALSE).st, k + 1)
    ELSE e

OnRowN(e, n) == D4RecNo(e) = n /\ ~BOF(e) /\ ~EOF(e)
SkipArgs == {k \in (0 - MaxRows - 1)..(MaxRows + 1) : k # 0}

\* C33: under physical ordering on a table with N >= 1 rows, First positions
\* at row 1 and Last at row N with neither BOF nor EOF set; Next from row
\* n < N positions at n+1 and Previous from there returns to n; Next from
\* row N sets EOF and Previous from row 1 sets BOF; Skip(k) ends in the state
\* that |k| successive Next (k > 0) or Previous (k < 0) calls end in, and
\* Skip(0) does not move the cursor.
C33_PhysicalNavigation ==
    (opened /\ SelectedTag(data) = NoTag /\ D4RecCount(data) >= 1) =>
        /\ OnRowN(First(data, FALSE).st, 1) /\ First(data, FALSE).err = NoErr
        /\ OnRowN(Last(data, FALSE).st, D4RecCount(data)) /\ Last(data, FALSE).err = NoErr
        /\ \A n \in 1..D4RecCount(data) :
              OnRowN(data, n) =>
                /\ n < D4RecCount(data) =>
                      /\ OnRowN(Next_(data, FALSE).st, n + 1)
                      /\ OnRowN(Previous(Next_(data, FALSE).st, FALSE).st, n)
                /\ n = D4RecCount(data) => EOF(Next_(data, FALSE).st)
                /\ n = 1 => BOF(Previous(data, FALSE).st)
        /\ \A k \in SkipArgs : Skip(data, k, FALSE).st = Stepped(data, k)
        /\ D4RecNo(Skip(data, 0, FALSE).st) = D4RecNo(data)

\* Skip(-2) from EOF of a two-row table, or Skip(0) on row 1.
C33_Witness ==
    /\ opened /\ ret.op = "Skip" /\ ret.err = NoErr /\ SelectedTag(data) = NoTag
    /\ D4RecCount(data) = 2 /\ Position(data) = 1

\* C34: for every valid calendar date from 0001-01-01 to 9999-12-31,
\* converting the date to its Julian day number and back with JulianToYMD
\* yields the same year, month and day, and JulianToYMD returns a month in
\* 1..12 and a day in 1..31.
C34_JulianRoundTrip ==
    ret.op = "JulianToYMD" =>
        /\ ret.list = ret.key
        /\ ret.list[2] \in 1..12
        /\ ret.list[3] \in 1..31

\* The leap day of a year divisible by 400.
C34_Witness == ret.op = "JulianToYMD" /\ ret.key = <<2000, 2, 29>> /\ ret.val = 2451604

\* The prefix taken from pattern is a prefix of every stored text of the
\* table that the compiled pattern matches.
SoundPrefixOn(e, pattern) ==
    \A i \in 1..D4RecCount(e) :
        FindAllStringIndex(Compile(pattern, FALSE), TrimSpace(e.rows[i].val)) # << >>
            => HasPrefix(TrimSpace(e.rows[i].val), extractPrefix(pattern))

\* C35: for every pattern that isSimplePrefix accepts, the prefix returned
\* by extractPrefix is a sound literal prefix: every string the compiled
\* pattern matches begins with it, so the index walk over the rows that
\* begin with it drops no matching row.
C35_PrefixSound ==
    opened => \A pattern \in Patterns :
        (CompileOk(pattern) /\ isSimplePrefix(pattern)) => SoundPrefixOn(data, pattern)

\* What holds: the prefix is sound when the metacharacter that ends it is
\* not a repetition of its last literal.
C35_PrefixSoundWithoutRepetition ==
    opened => \A pattern \in Patterns :
        (/\ CompileOk(pattern) /\ isSimplePrefix(pattern)
         /\ pattern[FirstMeta(Tail(pattern)) + 1] # "*")
            => SoundPrefixOn(data, pattern)

(* ------------------- C36: RegexSearch keeps the ordering ---------------- *)
\* A step that is a call of RegexSearch on the open table.
RegexSearchStep == opened /\ opened' /\ ret'.op = "RegexSearch"

\* C36: RegexSearch leaves the selected ordering as it was before the call
\* on every path: no optimisation attempted, the index walk made (also when
\* the seek ends not positioned or the walk stops early), and the full scan.
OrderingKeptStep == RegexSearchStep => SelectedTag(data') = SelectedTag(data)
C36_RegexSearchKeepsOrdering == [][OrderingKeptStep]_vars

\* The index walk was made while another ordering than the one it walks was
\* selected, and its seek ended not positioned: no row was looked at.
C36_Witness ==
    /\ opened /\ ret.op = "RegexSearch" /\ ret.err = NoErr
    /\ D4RecCount(data) > 0 /\ ret.scanned = 0
    /\ SelectedTag(data) = TagRECID

\* The index walk was made from the row its seek found, the second of the
\* file, while no ordering was selected: one row looked at, and it matches.
C36_WitnessWalk ==
    /\ opened /\ ret.op = "RegexSearch" /\ ret.err = NoErr
    /\ D4RecCount(data) = 2 /\ ret.scanned = 1
    /\ Len(ret.list) = 1 /\ ret.list[1].rec = 2
    /\ SelectedTag(data) = NoTag

(* ------------------------ C37: the walks terminate ---------------------- *)
WalkOps == AggregateOps \cup SearchOps \cup {"RecallAllDeleted"}

\* C37: on a table with finitely many rows every aggregate scan and every
\* search walk returns after at most one round of its loop per row, whether
\* it ends at EOF, at a navigation error, at a callback error or at the
\* MaxResults cap.
C37_WalksEndWithinRows ==
    (opened /\ ret.op \in WalkOps) => ret.scanned <= D4RecCount(data)

\* A search walk has looked at every row of a table of two rows or more,
\* once each, and returned.
C37_Witness ==
    /\ opened /\ ret.op = "SearchByExpression" /\ ret.err = NoErr
    /\ D4RecCount(data) >= 2 /\ ret.scanned = D4RecCount(data)

\* An aggregate scan has counted every row of such a table and returned.
C37_WitnessScan ==
    /\ opened /\ ret.op = "CountActive" /\ ret.err = NoErr
    /\ D4RecCount(data) >= 2 /\ ret.val = D4RecCount(data)
    /\ ret.scanned = D4RecCount(data)

(* ------------------ C38: Delete and Recall touch one flag --------------- *)
\* e1 is e but for the deletion flag of the row the cursor of e is on.
SameButFlag(e, e1) ==
    /\ Position(e1) = Position(e) /\ BOF(e1) = BOF(e) /\ EOF(e1) = EOF(e)
    /\ SelectedTag(e1) = SelectedTag(e)
    /\ D4RecCount(e1) = D4RecCount(e)
    /\ \A i \in 1..D4RecCount(e) :
           /\ e1.rows[i].id = e.rows[i].id /\ e1.rows[i].val = e.rows[i].val
           /\ i # Position(e) => e1.rows[i].del = e.rows[i].del
    /\ [e1 EXCEPT !.rows = e.rows] = e

DeleteRecallStep ==
    (opened /\ opened' /\ ret'.op \in {"Delete", "Recall"}) => SameButFlag(data, data')

Idempotent(e) ==
    /\ Delete(Delete(e).st) = Delete(e)
    /\ Recall(Recall(e).st) = Recall(e)

\* C38: Delete() and Recall() change at most the deletion flag of the row the
\* cursor is on; the flags of the other rows, the position, BOF/EOF, the
\* selected ordering and the number of rows stay, and a second Delete (or
\* Recall) in a row leaves the state the first one left.
C38_DeleteRecallTouchOneFlag ==
    /\ [][DeleteRecallStep]_vars
    /\ [](opened => Idempotent(data))

\* Delete has flagged row 2 and left the flag of row 1, set before, alone.
C38_Witness ==
    /\ opened /\ ret.op = "Delete" /\ ret.err = NoErr
    /\ Position(data) = 2 /\ data.rows[1].del /\ data.rows[2].del

\* Recall has cleared the flag of row 2 and left the flag of row 1 set.
C38_WitnessRecall ==
    /\ opened /\ ret.op = "Recall" /\ ret.err = NoErr
    /\ Position(data) = 2 /\ data.rows[1].del /\ ~data.rows[2].del

(* ------------------- C39: expression filters are freed ------------------ *)
ExprOps == {"SearchByExpression", "CountByExpression", "ForEachExpressionMatch"}

\* The filter of the operation that has just returned: none was created, or
\* the one created was handed to u4freeDefault once and holds no expression.
FilterFreedOnce ==
    ret.op \in ExprOps =>
        \/ ret.filter = "none" /\ ret.frees = 0 /\ ret.err # NoErr
        \/ ret.filter = "freed" /\ ret.frees = 1

\* Free on the filter the caller holds: a second Free changes nothing, and
\* the freed filter is not valid and refuses to evaluate.
FreeIdempotent ==
    obj.filter # "none" =>
        /\ Free(Free(obj)) = Free(obj)
        /\ ~FilterIsValid(Free(obj))
        /\ \A guess \in BOOLEAN, crash \in BOOLEAN :
               Evaluate(Active, data, Free(obj), guess, crash).err # NoErr

\* A step that is a call of Free leaves a filter that is not valid.
FreeStep == (obj.filter # "none" /\ ret'.op = "Free") =>
                /\ ~FilterIsValid(obj')
                /\ obj'.frees = IF FilterIsValid(obj) THEN obj.frees + 1 ELSE obj.frees

\* C39: every filter that SearchByExpression, CountByExpression or
\* ForEachExpressionMatch creates is freed exactly once before the operation
\* returns, on every exit path; ExprFilter.Free is idempotent, and after Free
\* IsValid() is false and Evaluate returns an error.
C39_FiltersFreedOnce ==
    /\ [](FilterFreedOnce /\ FreeIdempotent)
    /\ [][FreeStep]_vars

\* ForEachExpressionMatch has returned the error of its callback, and the
\* filter it created is freed.
C39_Witness ==
    /\ opened /\ ret.op = "ForEachExpressionMatch" /\ ret.err = "callback error"
    /\ ret.filter = "freed" /\ ret.frees = 1

\* SearchByExpression has returned the failure of its First.
C39_WitnessFirst ==
    /\ opened /\ ret.op = "SearchByExpression"
    /\ ret.err = "failed to go to first record"
    /\ ret.filter = "freed" /\ ret.frees = 1

\* The caller has freed a filter twice: the second Free found it freed.
C39_WitnessFreeTwice ==
    /\ ret.op = "Free" /\ obj.filter = "freed" /\ obj.frees = 1

====
